---- MODULE Spec2Model ----
(***************************************************************************)
(* A model of jpc's BaseProtocol (src/obj.js): two peers that expose       *)
(* objects to each other over a message channel.  Each peer keeps          *)
(*   _localIDsToObjects  ID -> local object (strong) or WeakRef            *)
(*   _localObjectsToIDs  WeakMap local object -> ID                        *)
(*   _remoteObjects      ID -> WeakRef(stub)                               *)
(*   _localClasses       class names already described to the peer         *)
(*   _remoteClasses      class name -> stub prototype                      *)
(* and two FinalizationRegistries.  The garbage collector and the          *)
(* finalization callbacks are steps of their own.                          *)
(***************************************************************************)
EXTENDS Integers, Sequences, FiniteSets, TLC

\* ------------------------------------------------------------------ bounds
NumIDs == 3        \* how many different IDs generateNewObjID can draw
MaxStubs == 2      \* stubs of a peer that exist (not yet finalized) at a time
MaxInFlight == 1   \* messages in flight between the peers
MaxDepth == 3      \* nesting depth a marshal follows before it is cut off
MaxHeap == 3       \* plain records a peer holds in one run

\* ------------------------------------------------------------ static world
Peers == {"A", "B"}
Other(p) == IF p = "A" THEN "B" ELSE "A"
IDs == 1 .. NumIDs

\* Property names are sequences of characters, so that startsWith is computed.
N_x == <<"x">>
N_id == <<"i", "d">>
N_priv == <<"_", "x">>
N_ctor == <<"c", "t", "o", "r">>
N_go == <<"g", "o">>
N_owner == <<"o", "w", "n", "e", "r">>
N_hidden == <<"_", "g", "o">>
N_b == <<"b">>
N_speed == <<"s", "p", "e", "e", "d">>
N_next == <<"n", "e", "x", "t">>
N_value == <<"v", "a", "l", "u", "e">>
N_done == <<"d", "o", "n", "e">>
N_undefined == <<"u", "n", "d", "e", "f", "i", "n", "e", "d">>
NameOrder ==
  <<N_x, N_id, N_priv, N_b, N_ctor, N_go, N_owner, N_hidden, N_speed, N_next,
    N_value, N_done>>

startsWith(name, c) == Len(name) >= 1 /\ name[1] = c

\* In-memory values.  Prim(n) is the number n and Str(i) the string that
\* spells the ID i: the IDs are strings, and no number equals one.
Prim(n) == [t |-> "prim", v |-> n]
Bool(b) == [t |-> "bool", v |-> b]
Str(i) == [t |-> "str", v |-> i]
Undefined == [t |-> "undef"]
ObjRef(o) == [t |-> "obj", o |-> o]
StubRef(s) == [t |-> "stub", s |-> s]
PlainRef(a) == [t |-> "plain", a |-> a]
\* A plain object that nothing else refers to, by its properties.
Record(m) == [t |-> "record", m |-> m]
ArrayOf(els) == [t |-> "array", els |-> els]

\* The classes of the program: Car extends Movable extends Thing, Garage,
\* and Fleet, whose objects iterate over themselves.
ClassNames == {"Thing", "Movable", "Car", "Garage", "Fleet"}
ParentOf(c) == CASE c = "Car" -> "Movable"
                 [] c = "Movable" -> "Thing"
                 [] OTHER -> "Object"

\* A class and its ancestors below Object: its prototype chain.
RECURSIVE Ancestors(_)
Ancestors(c) ==
  IF c \in {"Object", "Function"} THEN {} ELSE {c} \cup Ancestors(ParentOf(c))

\* Own properties of each class prototype: name -> kind.
ProtoProps(c) ==
  CASE c = "Car" -> (N_ctor :> "function") @@ (N_go :> "function") @@
                    (N_owner :> "getset") @@ (N_hidden :> "function")
    [] c = "Movable" -> (N_ctor :> "function") @@ (N_speed :> "getter") @@
                        (N_go :> "function")
    [] c = "Thing" -> (N_ctor :> "function") @@ (N_b :> "data") @@
                      (N_priv :> "data")
    [] c = "Fleet" -> (N_ctor :> "function") @@ (N_go :> "function") @@
                      (N_owner :> "getset") @@ (N_next :> "function")
    [] OTHER -> (N_ctor :> "function") @@ (N_go :> "function")
\* The classes whose prototype has the method [Symbol.iterator].
IterableClasses == {"Fleet"}
\* The classes whose prototype has the method [Symbol.asyncIterator].
AsyncIterableClasses == {"Garage"}

\* The classed local objects a peer can have.  B is the client: it asks A
\* for the start object and holds stubs only.
Clients == {"B"}
\* The activities of the application of a client: each of them makes one
\* call at a time and awaits it, and its name is the callID of its calls.
Threads == {"t1", "t2"}
LocalObjs(p) ==
  IF p = "A" THEN {"a0", "a1", "a2", "a3", "a4", "f1", "c1", "c2", "c3"}
  ELSE {"b1"}
\* f1 is a function.
ClassOf(o) == CASE o = "a1" -> "Car"
                [] o \in {"a2", "a3"} -> "Movable"
                [] o = "a4" -> "Fleet"
                [] o = "f1" -> "Function"
                [] OTHER -> "Garage"

\* Own properties of each object: name -> [kind, value].  The Garages c1
\* and c2 refer to each other, and c3 refers to a2.
Data(v) == [kind |-> "data", value |-> v]
OwnProps(o) ==
  CASE o = "a1" -> (N_x :> Data(Prim(1))) @@ (N_priv :> Data(Prim(2)))
    [] o = "a2" -> (N_x :> Data(Prim(1)))
    [] o = "a3" -> (N_id :> Data(Prim(1)))
    [] o = "f1" -> [n \in {} |-> Data(Prim(0))]
    [] o = "c1" -> (N_x :> Data(ObjRef("c2")))
    [] o = "c2" -> (N_x :> Data(ObjRef("c1")))
    [] o = "c3" -> (N_x :> Data(ObjRef("a2")))
    [] OTHER -> (N_x :> Data(Prim(2))) @@ (N_priv :> Data(Prim(1)))

\* What the objects of class Fleet keep besides: _owner, which the accessor
\* owner reads and writes, and _pos, how many of the Items next() has given
\* since [Symbol.iterator]() was called last.
Items == <<Prim(1), Prim(2)>>
FleetObjs(p) == {o \in LocalObjs(p) : ClassOf(o) = "Fleet"}
NewFleet == [owner |-> Prim(0), pos |-> Len(Items)]

VARIABLES
  localIDsToObjects,    \* [peer -> [ID -> [strong, obj]]]
  localObjectsToIDs,    \* [peer -> [object -> ID]], a WeakMap
  localObjectRegistry,  \* [peer -> set of <<object, ID>>] registered
  remoteObjects,        \* [peer -> [ID -> stub]], WeakRefs
  remoteObjectRegistry, \* [peer -> set of <<stub, ID>>] registered
  stubs,                \* [peer -> sequence of stub records]
  alive,                \* [peer -> set of local objects not collected]
  localClasses,         \* [peer -> set of class names]
  remoteClasses,        \* [peer -> set of class names with a prototype]
  heap,                 \* [peer -> sequence of plain records (field maps)]
  fleets,               \* [peer -> [Fleet object -> its _owner and _pos]]
  patched,              \* [peer -> stub classes with [Symbol.asyncIterator]
                        \*  overwritten]
  issued,               \* [peer -> the <<object, ID>> it ever registered]
  startObject,          \* [peer -> the object start(startObject) was given]
  chan,                 \* [peer -> messages on their way to that peer]
  running,              \* [peer -> handlers that have not answered yet]
  calls,                \* [peer -> [callID -> the state of that call]]
  returned,             \* [peer -> how the call that ended last ended]
  described,            \* [peer -> classes whose class call has resolved]
  sentClasses,          \* [peer -> classes whose class call has been made]
  awaited,              \* [peer -> [activity -> what it does and waits for]]
  ended                 \* [peer -> how the stub operation that ended last ended]

vars == <<localIDsToObjects, localObjectsToIDs, localObjectRegistry,
          remoteObjects, remoteObjectRegistry, stubs, alive,
          localClasses, remoteClasses, heap, fleets, patched, issued,
          startObject, chan,
          running, calls, returned, described, sentClasses, awaited, ended>>
\* What the waiting handlers and calls add to the tables of the peers.
apiVars == <<awaited, ended>>
callVars == <<running, calls, returned, described, sentClasses, apiVars>>

\* The state of one peer, as the operators below read and change it.
PeerState(p) ==
  [localIDsToObjects |-> localIDsToObjects[p],
   localObjectsToIDs |-> localObjectsToIDs[p],
   localObjectRegistry |-> localObjectRegistry[p],
   remoteObjects |-> remoteObjects[p],
   remoteObjectRegistry |-> remoteObjectRegistry[p],
   stubs |-> stubs[p],
   alive |-> alive[p],
   localClasses |-> localClasses[p],
   remoteClasses |-> remoteClasses[p],
   heap |-> heap[p],
   fleets |-> fleets[p],
   patched |-> patched[p],
   issued |-> issued[p],
   startObject |-> startObject[p]]

SetPeer(p, st) ==
  /\ localIDsToObjects' = [localIDsToObjects EXCEPT ![p] = st.localIDsToObjects]
  /\ localObjectsToIDs' = [localObjectsToIDs EXCEPT ![p] = st.localObjectsToIDs]
  /\ localObjectRegistry' = [localObjectRegistry EXCEPT ![p] = st.localObjectRegistry]
  /\ remoteObjects' = [remoteObjects EXCEPT ![p] = st.remoteObjects]
  /\ remoteObjectRegistry' = [remoteObjectRegistry EXCEPT ![p] = st.remoteObjectRegistry]
  /\ stubs' = [stubs EXCEPT ![p] = st.stubs]
  /\ alive' = [alive EXCEPT ![p] = st.alive]
  /\ localClasses' = [localClasses EXCEPT ![p] = st.localClasses]
  /\ remoteClasses' = [remoteClasses EXCEPT ![p] = st.remoteClasses]
  /\ heap' = [heap EXCEPT ![p] = st.heap]
  /\ fleets' = [fleets EXCEPT ![p] = st.fleets]
  /\ patched' = [patched EXCEPT ![p] = st.patched]
  /\ issued' = [issued EXCEPT ![p] = st.issued]
  /\ UNCHANGED startObject

\* Results of an operation: the peer state it leaves, its value, and how it
\* ended: "ok" it returned, "threw" an assert failed, "cut" it went deeper
\* than MaxDepth, "blocked" it needs more than the bounds of the model give.
Ok(st, val) == [st |-> st, val |-> val, status |-> "ok"]
Threw(st, message) ==
  [st |-> st, val |-> [t |-> "error", message |-> message], status |-> "threw"]
Cut(st) == [st |-> st, val |-> Undefined, status |-> "cut"]
Blocked(st) == [st |-> st, val |-> Undefined, status |-> "blocked"]
Failed(r) == [st |-> r.st, val |-> r.val, status |-> r.status]

\* Put(f, k, v) is Map.set(k, v); Drop(f, k) is Map.delete(k).
Put(f, k, v) == [x \in DOMAIN f \cup {k} |-> IF x = k THEN v ELSE f[x]]
Drop(f, k) == [x \in DOMAIN f \ {k} |-> f[x]]
EmptyMap == [x \in {} |-> Undefined]

\* ------------------------------------------------------------ ID to objects
\* An entry of _localIDsToObjects: the object itself, or a WeakRef to it.
Strong(v) == [strong |-> TRUE, obj |-> v]
Weak(v) == [strong |-> FALSE, obj |-> v]
NoStub == 0

\* Whether the garbage collector has not collected the object v refers to.
IsAlive(st, v) ==
  CASE v.t = "obj" -> v.o \in st.alive
    [] v.t = "stub" -> st.stubs[v.s].state = "live"
    [] OTHER -> TRUE

\* getRemoteObject: ref && ref.deref()
getRemoteObject(st, id) ==
  IF id \in DOMAIN st.remoteObjects /\ IsAlive(st, StubRef(st.remoteObjects[id]))
  THEN st.remoteObjects[id]
  ELSE NoStub

\* A version that never returns.
getLocalObjectStuck(st, id) == Blocked(st)

\* A version that leaves a weak entry weak.
getLocalObjectWeak(st, id) ==
  IF id \notin DOMAIN st.localIDsToObjects THEN Threw(st, "unknown local object")
  ELSE IF ~IsAlive(st, st.localIDsToObjects[id].obj)
  THEN Threw(st, "unknown local object")
  ELSE Ok(st, st.localIDsToObjects[id].obj)

getLocalObject(st, id) ==
  IF id \notin DOMAIN st.localIDsToObjects THEN Threw(st, "unknown local object")
  ELSE LET entry == st.localIDsToObjects[id] IN
       IF entry.strong THEN Ok(st, entry.obj)
       ELSE IF ~IsAlive(st, entry.obj) THEN Threw(st, "unknown local object")
       ELSE Ok([st EXCEPT !.localIDsToObjects = Put(@, id, Strong(entry.obj))],
               entry.obj)

\* A version that returns the first ID it draws.
generateNewObjIDAny(st) == IDs
\* generateNewObjID draws at random until the ID is no key of
\* _localIDsToObjects: any such ID can come out.
generateNewObjID(st) == IDs \ DOMAIN st.localIDsToObjects

\* A version that sets the _localIDsToObjects entry for a new ID only.
getOrCreateIDForLocalObjectOnce(st, obj, pick) ==
  LET known == obj \in DOMAIN st.localObjectsToIDs
      id == IF known THEN st.localObjectsToIDs[obj] ELSE pick[obj]
  IN IF known THEN Ok(st, id)
     ELSE IF id \notin generateNewObjID(st) THEN Blocked(st)
     ELSE Ok([st EXCEPT !.localObjectsToIDs = Put(@, obj, id),
                        !.localObjectRegistry = @ \cup {<<obj, id>>},
                        !.issued = @ \cup {<<obj, id>>},
                        !.localIDsToObjects = Put(@, id, Strong(obj))], id)

\* pick[obj] is the ID generateNewObjID returns should obj need one.
getOrCreateIDForLocalObject(st, obj, pick) ==
  LET known == obj \in DOMAIN st.localObjectsToIDs
      id == IF known THEN st.localObjectsToIDs[obj] ELSE pick[obj]
      st1 == IF known THEN st
             ELSE [st EXCEPT !.localObjectsToIDs = Put(@, obj, id),
                             !.localObjectRegistry = @ \cup {<<obj, id>>},
                             !.issued = @ \cup {<<obj, id>>}]
  IN IF ~known /\ id \notin generateNewObjID(st) THEN Blocked(st)
     ELSE Ok([st1 EXCEPT !.localIDsToObjects = Put(@, id, Strong(obj))], id)

\* A version that forgets _remoteObjectRegistry.register(obj, id).
addRemoteObjectUnregistered(st, id, stub) ==
  IF getRemoteObject(st, id) # NoStub THEN Threw(st, "remote object exists")
  ELSE Ok([st EXCEPT !.remoteObjects = Put(@, id, stub)], stub)

\* A version that registers the stub whatever is registered under the ID.
addRemoteObjectOverwriting(st, id, stub) ==
  Ok([st EXCEPT !.remoteObjects = Put(@, id, stub),
                !.remoteObjectRegistry = @ \cup {<<stub, id>>}], stub)

addRemoteObject(st, id, stub) ==
  IF getRemoteObject(st, id) # NoStub THEN Threw(st, "remote object exists")
  ELSE Ok([st EXCEPT !.remoteObjects = Put(@, id, stub),
                     !.remoteObjectRegistry = @ \cup {<<stub, id>>}], stub)

\* A version that drops the entry instead of keeping a weak reference.
deleteLocalObjectDropping(st, id) ==
  IF id \notin DOMAIN st.localIDsToObjects THEN Threw(st, "unknown local object")
  ELSE Ok([st EXCEPT !.localIDsToObjects = Drop(@, id)], Undefined)

\* A version that also takes the object out of _localObjectsToIDs.
deleteLocalObjectUnmapping(st, id) ==
  IF id \notin DOMAIN st.localIDsToObjects THEN Threw(st, "unknown local object")
  ELSE LET entry == st.localIDsToObjects[id] IN
       IF ~entry.strong THEN Ok(st, Undefined)
       ELSE Ok([st EXCEPT !.localIDsToObjects = Put(@, id, Weak(entry.obj)),
                          !.localObjectsToIDs = Drop(@, entry.obj)],
               Undefined)

\* A version that erases the entry when the peer releases the object.
deleteLocalObjectErasing(st, id) ==
  IF id \notin DOMAIN st.localIDsToObjects THEN Threw(st, "unknown local object")
  ELSE Ok([st EXCEPT !.localIDsToObjects = Drop(@, id)], Undefined)

deleteLocalObject(st, id) ==
  IF id \notin DOMAIN st.localIDsToObjects THEN Threw(st, "unknown local object")
  ELSE LET entry == st.localIDsToObjects[id] IN
       IF ~entry.strong THEN Ok(st, Undefined)
       ELSE Ok([st EXCEPT !.localIDsToObjects = Put(@, id, Weak(entry.obj))],
               Undefined)

\* ------------------------------------------------------------ wire values
IdLocal(id, className, properties, o) ==
  [t |-> "idLocal", idLocal |-> id, className |-> className,
   properties |-> properties, ghost |-> o]
IdRemote(id, o) == [t |-> "idRemote", idRemote |-> id, ghost |-> o]
PlainObject(m) == [t |-> "plainObject", plainObject |-> m]

\* The key of _localIDsToObjects a received value is: the ID a string
\* spells, and no key at all (0) for any other value.
KeyOf(v) == IF v.t = "str" THEN v.v ELSE 0
\* if (obj.idRemote)
Truthy(v) ==
  ~(v.t = "undef" \/ (v.t = "prim" /\ v.v = 0) \/ (v.t = "bool" /\ ~v.v))

getClassName(st, v) ==
  CASE v.t = "obj" -> ClassOf(v.o)
    [] OTHER -> "Object"

\* typeof(value) == "function": a local function, or a callable stub.
IsFunction(st, v) ==
  \/ v.t = "obj" /\ ClassOf(v.o) = "Function"
  \/ v.t = "stub" /\ st.stubs[v.s].className = "Function"
\* The name of the object a description of the local value v is about.
GhostOf(v) == IF v.t = "obj" THEN v.o ELSE "s" \o ToString(v.s)

\* A version that lets every own data property through.
DescribedPropsUnfiltered(o) ==
  {n \in DOMAIN OwnProps(o) : OwnProps(o)[n].kind = "data"}

\* The names createObjectDescription sends of an object's own properties.
DescribedProps(o) ==
  {n \in DOMAIN OwnProps(o) :
     /\ ~startsWith(n, "_")
     /\ OwnProps(o)[n].kind = "data"}

InOrder(names) == SelectSeq(NameOrder, LAMBDA n : n \in names)

RECURSIVE mapOutgoingObjects(_, _, _, _)
RECURSIVE mapOutgoingFields(_, _, _, _, _, _)
RECURSIVE mapOutgoingArray(_, _, _, _, _)

\* for (propName ...) out[propName] = await mapOutgoingObjects(fields[propName])
mapOutgoingFields(st, fields, names, acc, pick, fuel) ==
  IF names = <<>> THEN Ok(st, acc)
  ELSE LET r == mapOutgoingObjects(st, fields[Head(names)], pick, fuel) IN
       IF r.status # "ok" THEN Failed(r)
       ELSE mapOutgoingFields(r.st, fields, Tail(names),
                              Put(acc, Head(names), r.val), pick, fuel)

mapOutgoingArray(st, els, acc, pick, fuel) ==
  IF els = <<>> THEN Ok(st, ArrayOf(acc))
  ELSE LET r == mapOutgoingObjects(st, Head(els), pick, fuel) IN
       IF r.status # "ok" THEN Failed(r)
       ELSE mapOutgoingArray(r.st, Tail(els), Append(acc, r.val), pick, fuel)

\* The part of createObjectDescription after the class is known to be sent.
createObjectDescription(st, obj, id, pick, fuel) ==
  LET o == obj.o
      className == getClassName(st, obj)
      fields == [n \in DescribedProps(o) |-> OwnProps(o)[n].value]
      r == mapOutgoingFields(st, fields, InOrder(DescribedProps(o)), EmptyMap,
                             pick, fuel)
  IN IF className \notin st.localClasses THEN Blocked(st)
     ELSE IF r.status # "ok" THEN Failed(r)
     ELSE Ok(r.st, IdLocal(id, className, r.val, o))

mapOutgoingObjects(st, value, pick, fuel) ==
  IF fuel = 0 THEN Cut(st)
  ELSE CASE value.t \in {"prim", "bool", "undef"} -> Ok(st, value)
    [] value.t = "array" -> mapOutgoingArray(st, value.els, <<>>, pick, fuel - 1)
    [] value.t = "stub" /\ ~IsFunction(st, value) ->
         Ok(st, IdRemote(st.stubs[value.s].id, st.stubs[value.s].origin))
    [] value.t \in {"record", "plain"} ->
         LET fields == IF value.t = "record" THEN value.m ELSE st.heap[value.a]
             r == mapOutgoingFields(st, fields, InOrder(DOMAIN fields), EmptyMap,
                                    pick, fuel - 1)
         IN IF r.status # "ok" THEN Failed(r) ELSE Ok(r.st, PlainObject(r.val))
    [] OTHER ->
         LET g == getOrCreateIDForLocalObject(st, value, pick) IN
         IF g.status # "ok" THEN Failed(g)
         ELSE IF value.t = "obj" /\ ClassOf(value.o) # "Function"
         THEN createObjectDescription(g.st, value, g.val, pick, fuel - 1)
         ELSE Ok(g.st, IdLocal(g.val, "Function", EmptyMap, GhostOf(value)))

\* ------------------------------------------------------------ stub objects
\* A stub: Object.create(proto) with stub.id set.  regId is the ID it is
\* registered under and origin the object it stands for (neither is a field
\* the program reads; the ghost of a wire value is the object it names).
\* A slot is free until a stub is made in it and again once the stub is
\* collected and its finalization callback has run.
NewStub(descr) ==
  [state |-> "live", regId |-> descr.idLocal, id |-> Str(descr.idLocal),
   className |-> descr.className, origin |-> descr.ghost]
FreeSlot ==
  [state |-> "free", regId |-> 0, id |-> Undefined, className |-> "", origin |-> ""]
FreeSlots(st) == {k \in 1 .. MaxStubs : st.stubs[k].state = "free"}

\* makeCallable(id): an arrow function that holds id (as regId here) and has
\* no field id.
makeCallable(st, descr) ==
  LET s == CHOOSE k \in FreeSlots(st) : \A j \in FreeSlots(st) : k <= j IN
  IF FreeSlots(st) = {} THEN Blocked(st)
  ELSE Ok([st EXCEPT !.stubs[s] = [NewStub(descr) EXCEPT !.id = Undefined]], s)

RECURSIVE mapIncomingObjects(_, _)
RECURSIVE mapIncomingArray(_, _, _)
RECURSIVE mapIncomingPlain(_, _, _, _)
RECURSIVE assignStubProps(_, _, _, _)

mapIncomingArray(st, els, acc) ==
  IF els = <<>> THEN Ok(st, ArrayOf(acc))
  ELSE LET r == mapIncomingObjects(st, Head(els)) IN
       IF r.status # "ok" THEN Failed(r)
       ELSE mapIncomingArray(r.st, Tail(els), Append(acc, r.val))

\* for (propName in obj.plainObject) plainObject[propName] = mapIncomingObjects(...)
mapIncomingPlain(st, a, fields, names) ==
  IF names = <<>> THEN Ok(st, PlainRef(a))
  ELSE LET r == mapIncomingObjects(st, fields[Head(names)]) IN
       IF r.status # "ok" THEN Failed(r)
       ELSE mapIncomingPlain(
              [r.st EXCEPT !.heap[a] = Put(@, Head(names), r.val)],
              a, fields, Tail(names))

\* for (propName in properties) stub[propName] = mapIncomingObjects(...)
\* Of the stub's fields the model keeps id.
assignStubProps(st, s, props, names) ==
  IF names = <<>> THEN Ok(st, StubRef(s))
  ELSE LET r == mapIncomingObjects(st, props[Head(names)]) IN
       IF r.status # "ok" THEN Failed(r)
       ELSE assignStubProps(
              IF Head(names) = N_id THEN [r.st EXCEPT !.stubs[s].id = r.val]
              ELSE r.st,
              s, props, Tail(names))

makeStub(st, objDescrJSON) ==
  LET s == CHOOSE k \in FreeSlots(st) : \A j \in FreeSlots(st) : k <= j
      st1 == [st EXCEPT !.stubs[s] = NewStub(objDescrJSON)]
      a == addRemoteObject(st1, objDescrJSON.idLocal, s)
  IN IF objDescrJSON.className \notin st.remoteClasses
     THEN Threw(st, "unknown remote class")
     ELSE IF FreeSlots(st) = {} THEN Blocked(st)
     ELSE IF a.status # "ok" THEN Failed(a)
     ELSE assignStubProps(a.st, s, objDescrJSON.properties,
                          InOrder(DOMAIN objDescrJSON.properties))

mapIncomingObjects(st, value) ==
  CASE value.t \in {"prim", "bool", "undef"} -> Ok(st, value)
    [] value.t = "array" -> mapIncomingArray(st, value.els, <<>>)
    [] value.t = "idLocal" ->
         LET stub == getRemoteObject(st, value.idLocal)
             callable == makeCallable(st, value)
             a == addRemoteObject(callable.st, value.idLocal, callable.val)
         IN IF stub # NoStub THEN Ok(st, StubRef(stub))
            ELSE IF value.className # "Function" THEN makeStub(st, value)
            ELSE IF callable.status # "ok" THEN Failed(callable)
            ELSE IF a.status # "ok" THEN Failed(a)
            ELSE Ok(a.st, StubRef(callable.val))
    [] value.t = "idRemote" ->
         IF Truthy(value.idRemote) THEN getLocalObject(st, KeyOf(value.idRemote))
         ELSE Ok(st, Undefined)
    [] value.t = "plainObject" ->
         LET a == Len(st.heap) + 1 IN
         IF a > MaxHeap THEN Blocked(st)
         ELSE mapIncomingPlain([st EXCEPT !.heap = Append(@, EmptyMap)], a,
                               value.plainObject, InOrder(DOMAIN value.plainObject))

\* ------------------------------------------------------------ the channel
\* callRemote(method, payload) puts a request on the way to the other peer;
\* what a handler returns or throws goes back as a reply or an error.
Msg(verb) == [verb |-> verb]
FuncMsg(id, name, args) == [verb |-> "func", obj |-> id, name |-> name, args |-> args]
ReplyMsg(value) == [verb |-> "reply", value |-> value]
ErrorMsg(e) == [verb |-> "error", message |-> e.message]
DelMsg(id) == [verb |-> "del", idRemote |-> id]

InFlight == Len(chan["A"]) + Len(chan["B"])
\* Whether one more request can be sent; a handler's reply takes the place
\* of the request it answers.
CanSend == InFlight < MaxInFlight
Send(p, m) == [chan EXCEPT ![p] = Append(@, m)]
\* The peer p takes the message at the head of its queue and sends the
\* messages out to the other peer.
TakeAndSend(p, out) ==
  [chan EXCEPT ![p] = Tail(@), ![Other(p)] = @ \o out]
Head_(p, verb) == chan[p] # <<>> /\ Head(chan[p]).verb = verb

\* The verbs start(startObject) registers a listener for, and whether a
\* request of the verb is next for its listener at p.
Listeners ==
  {"class", "start", "new", "call", "iter", "func", "get", "set", "del"}
\* A transport that gives a peer its next request only when the listener
\* of the request before has returned.
IncomingSerial(p, verb) ==
  running[p] = <<>> /\ verb \in Listeners /\ Head_(p, verb)

Incoming(p, verb) == verb \in Listeners /\ Head_(p, verb)

\* A version of the start listener's bound argument that holds nothing.
boundStartObjectNone(st) == Undefined

\* The argument start() binds the "start" listener to: startObject.
boundStartObject(st) == ObjRef(st.startObject)

\* The local objects a marshal of value comes to.
RECURSIVE Reach(_, _, _)
Reach(st, value, fuel) ==
  IF fuel = 0 THEN {}
  ELSE CASE value.t = "obj" ->
              {value} \cup UNION {Reach(st, OwnProps(value.o)[n].value, fuel - 1) :
                                    n \in DescribedProps(value.o)}
         [] value.t = "stub" -> IF IsFunction(st, value) THEN {value} ELSE {}
         [] value.t = "array" ->
              UNION {Reach(st, value.els[k], fuel - 1) :
                       k \in 1 .. Len(value.els)}
         [] OTHER -> {}

\* Every assignment of IDs generateNewObjID may hand to the objects of p
\* that a marshal of value comes to and that have none (0: there is none
\* left within NumIDs).
Picks(p, value) ==
  [Reach(PeerState(p), value, MaxDepth) \ DOMAIN localObjectsToIDs[p]
     -> IF generateNewObjID(PeerState(p)) = {} THEN {0}
        ELSE generateNewObjID(PeerState(p))]

\* What the application of p can pass on: its live objects and stubs.
Held(st, p) ==
  {ObjRef(o) : o \in st.alive} \cup
  {StubRef(s) : s \in {k \in 1 .. MaxStubs : st.stubs[k].state = "live"}}

\* ------------------------------------------------------------ actions
\* The client side asks for the start object.
CallStart(p) ==
  /\ CanSend
  /\ chan' = Send(Other(p), Msg("start"))
  /\ UNCHANGED <<localIDsToObjects, localObjectsToIDs, localObjectRegistry,
                 remoteObjects, remoteObjectRegistry, stubs, alive,
                 localClasses, remoteClasses, heap, fleets, patched, issued,
                 startObject, callVars>>

\* "start" is answered by mapOutgoingObjects(startObject).
HandleStart(p) ==
  /\ Incoming(p, "start")
  /\ \E pick \in Picks(p, boundStartObject(PeerState(p))) :
       LET r == mapOutgoingObjects(PeerState(p), boundStartObject(PeerState(p)),
                                   pick, MaxDepth)
       IN /\ r.status \in {"ok", "threw"}
          /\ SetPeer(p, r.st)
          /\ chan' = TakeAndSend(p, <<IF r.status = "ok" THEN ReplyMsg(r.val)
                                      ELSE ErrorMsg(r.val)>>)
          /\ UNCHANGED callVars

\* makeFunction: a method of a stub is called with args.
CallFunc(p, s, args) ==
  /\ CanSend
  /\ \E pick \in Picks(p, ArrayOf(args)) :
       LET r == mapOutgoingObjects(PeerState(p), ArrayOf(args), pick, MaxDepth)
       IN /\ r.status = "ok"
          /\ SetPeer(p, r.st)
          /\ chan' = Send(Other(p),
                          FuncMsg(stubs[p][s].id, N_go, r.val))
          /\ UNCHANGED callVars

\* What the local function called by funcListener does: it returns one of
\* the values the peer holds, or nothing, or it throws.
FuncOutcomes(st, p) == Held(st, p) \cup {Undefined, [t |-> "throws", message |-> "E"]}

\* funcListener up to the call of the function: the asserts, the target
\* and the arguments.
funcListenerArgs(st, payload) ==
  LET obj == getLocalObject(st, KeyOf(payload.obj))
      args == mapIncomingObjects(obj.st, payload.args)
  IN IF payload.obj.t # "str" THEN Threw(st, "Need object ID")
     ELSE IF obj.status # "ok" THEN Failed(obj)
     ELSE args

\* A version that catches what the function throws and answers nothing.
callAndAwaitCaught(st, outcome) ==
  Ok(st, IF outcome.t = "throws" THEN Undefined ELSE outcome)

\* result = obj[name](...args); if (result instanceof Promise) result =
\* await result: what the function throws, or rejects with, goes on up.
callAndAwait(st, outcome) ==
  IF outcome.t = "throws" THEN Threw(st, outcome.message) ELSE Ok(st, outcome)

funcListener(st, payload, outcome, pick) ==
  LET args == funcListenerArgs(st, payload)
      result == callAndAwait(args.st, outcome)
  IN IF args.status # "ok" THEN Failed(args)
     ELSE IF result.status # "ok" THEN Failed(result)
     ELSE mapOutgoingObjects(result.st, result.val, pick, MaxDepth)

\* The function called returns one of the values the peer holds.
HandleFunc(p) ==
  /\ Incoming(p, "func")
  /\ \E outcome \in Held(PeerState(p), p) :
     \E pick \in Picks(p, outcome) :
       LET r == funcListener(PeerState(p), Head(chan[p]), outcome, pick)
       IN /\ r.status \in {"ok", "threw"}
          /\ SetPeer(p, r.st)
          /\ chan' = TakeAndSend(p, <<IF r.status = "ok" THEN ReplyMsg(r.val)
                                      ELSE ErrorMsg(r.val)>>)
          /\ UNCHANGED callVars

\* The awaited callRemote resolves: the caller maps the reply.
HandleReply(p) ==
  /\ Head_(p, "reply")
  /\ LET r == mapIncomingObjects(PeerState(p), Head(chan[p]).value)
     IN /\ r.status \in {"ok", "threw"}
        /\ SetPeer(p, r.st)
        /\ chan' = TakeAndSend(p, <<>>)
        /\ UNCHANGED callVars

\* The awaited callRemote rejects.
HandleError(p) ==
  /\ Head_(p, "error")
  /\ chan' = TakeAndSend(p, <<>>)
  /\ UNCHANGED <<localIDsToObjects, localObjectsToIDs, localObjectRegistry,
                 remoteObjects, remoteObjectRegistry, stubs, alive,
                 localClasses, remoteClasses, heap, fleets, patched, issued,
                 startObject, callVars>>

\* "del": payload => deleteLocalObject(payload.idRemote)
HandleDel(p) ==
  /\ Incoming(p, "del")
  /\ SetPeer(p, deleteLocalObject(PeerState(p), Head(chan[p]).idRemote).st)
  /\ chan' = TakeAndSend(p, <<>>)
  /\ UNCHANGED callVars

\* What the handlers that have not answered yet and the loops of the
\* application refer to: nothing of it can be collected.
Referenced(p) ==
  {running[p][k].value : k \in DOMAIN running[p]} \cup
  {StubRef(awaited[p][t].stub) :
     t \in {u \in Threads : awaited[p][u].verb \in {"iter", "next"}}}

\* The application drops a stub and the garbage collector collects it;
\* a strong entry of _localIDsToObjects keeps a callable stub.
CollectStub(p, s) ==
  /\ stubs[p][s].state = "live"
  /\ StubRef(s) \notin Referenced(p)
  /\ \A id \in DOMAIN localIDsToObjects[p] :
       localIDsToObjects[p][id] # Strong(StubRef(s))
  /\ stubs' = [stubs EXCEPT ![p][s] =
                  [FreeSlot EXCEPT !.state = "collected", !.regId = stubs[p][s].regId]]
  /\ UNCHANGED <<localIDsToObjects, localObjectsToIDs, localObjectRegistry,
                 remoteObjects, remoteObjectRegistry, alive,
                 localClasses, remoteClasses, heap, fleets, patched, issued,
                 startObject, chan, callVars>>

\* The callback of _remoteObjectRegistry, for a collected stub.
remoteObjectFinalizer(st, s, id) ==
  [st EXCEPT !.remoteObjects = Drop(@, id),
             !.remoteObjectRegistry = @ \ {<<s, id>>},
             !.stubs[s] = FreeSlot]

\* A callback that forgets the stub and tells the owner nothing.
FinalizeStubSilent(p, s) ==
  \E reg \in remoteObjectRegistry[p] :
    /\ reg[1] = s
    /\ stubs[p][reg[1]].state = "collected"
    /\ SetPeer(p, remoteObjectFinalizer(PeerState(p), reg[1], reg[2]))
    /\ UNCHANGED <<chan, callVars>>

\* The callback for the collected stub s.
FinalizeStub(p, s) ==
  \E reg \in remoteObjectRegistry[p] :
    /\ reg[1] = s
    /\ stubs[p][reg[1]].state = "collected"
    /\ SetPeer(p, remoteObjectFinalizer(PeerState(p), reg[1], reg[2]))
    /\ chan' = Send(Other(p), DelMsg(reg[2]))
    /\ UNCHANGED callVars
Finalize(p) == \E s \in 1 .. MaxStubs : FinalizeStub(p, s)
\* The callback runs when the transport takes one more message.
RemoteFinalizer(p) == CanSend /\ Finalize(p)

\* Nothing but a weak entry refers to a local object any more, and the
\* garbage collector collects it.  The start object stays referenced by the
\* "start" handler.
CollectLocal(p, o) ==
  /\ o \in alive[p]
  /\ o # startObject[p]
  /\ ObjRef(o) \notin Referenced(p)
  /\ \A id \in DOMAIN localIDsToObjects[p] :
       localIDsToObjects[p][id] # Strong(ObjRef(o))
  /\ alive' = [alive EXCEPT ![p] = @ \ {o}]
  /\ localObjectsToIDs' = [localObjectsToIDs EXCEPT ![p] = Drop(@, ObjRef(o))]
  /\ UNCHANGED <<localIDsToObjects, localObjectRegistry,
                 remoteObjects, remoteObjectRegistry, stubs,
                 localClasses, remoteClasses, heap, fleets, patched, issued,
                 startObject, chan, callVars>>

\* The callback of _localObjectRegistry, for a collected local object.
localObjectFinalizer(st, obj, id) ==
  [st EXCEPT !.localIDsToObjects = Drop(@, id),
             !.localObjectRegistry = @ \ {<<obj, id>>}]

LocalFinalizer(p) ==
  /\ \E reg \in localObjectRegistry[p] :
       /\ ~IsAlive(PeerState(p), reg[1])
       /\ SetPeer(p, localObjectFinalizer(PeerState(p), reg[1], reg[2]))
  /\ UNCHANGED <<chan, callVars>>

\* ------------------------------------------------------------ classes
Range(f) == {f[k] : k \in DOMAIN f}

\* The own names of a prototype that sendClassDescription describes, of the
\* given kinds.
DescribedNames(className, kinds) ==
  {n \in DOMAIN ProtoProps(className) :
     /\ ~startsWith(n, "_")
     /\ n # N_ctor
     /\ ProtoProps(className)[n] \in kinds}

\* The description sendClassDescription builds of a class (extends "": the
\* field is left out, the parent is Object).
\* descr.iterator: "asyncIterator" if Symbol.asyncInterator, which is
\* undefined, is in proto, that is if proto has a property named
\* "undefined"; else "iterator" if Symbol.iterator is in proto; else null.
iteratorTag(className) ==
  IF \E c \in Ancestors(className) : N_undefined \in DOMAIN ProtoProps(c)
  THEN "asyncIterator"
  ELSE IF \E c \in Ancestors(className) : c \in IterableClasses
  THEN "iterator"
  ELSE ""

ClassDescr(className) ==
  LET functions == InOrder(DescribedNames(className, {"function"}))
      getters == InOrder(DescribedNames(className, {"getter", "getset"}))
      properties == InOrder(DescribedNames(className, {"data"}))
  IN [className |-> className,
      iterator |-> iteratorTag(className),
      extends |-> IF ParentOf(className) = "Object" THEN ""
                  ELSE ParentOf(className),
      functions |-> [k \in 1 .. Len(functions) |-> [name |-> functions[k]]],
      getters |-> [k \in 1 .. Len(getters) |->
                     [name |-> getters[k],
                      hasSetter |-> ProtoProps(className)[getters[k]] = "getset"]],
      properties |-> [k \in 1 .. Len(properties) |-> [name |-> properties[k]]]]

\* The classes sendClassDescription(className) adds to _localClasses before
\* it waits for the first time: className and its ancestors up to the first
\* one that is in the set already.  Their class messages go out root first,
\* each one after the answer to the one before.
RECURSIVE classesToSendAll(_, _)
\* A version that does not look at _localClasses above the class itself.
classesToSendAll(known, className) ==
  IF className = "Object" THEN <<>>
  ELSE Append(classesToSendAll(known, ParentOf(className)), className)

RECURSIVE classesToSend(_, _)
classesToSend(known, className) ==
  IF className \in known \/ className = "Object" THEN <<>>
  ELSE Append(classesToSend(known \cup {className}, ParentOf(className)),
              className)

\* A version that refuses the description of a class it has.
registerRemoteClassStrict(st, classDescrJSON) ==
  LET descr == Head(classDescrJSON) IN
  IF descr.className \in st.remoteClasses THEN Threw(st, "class exists")
  ELSE IF descr.extends # "" /\ descr.extends \notin st.remoteClasses
  THEN Threw(st, "unknown super class")
  ELSE Ok([st EXCEPT !.remoteClasses = @ \cup {descr.className}], Undefined)

\* A version that does not ask for the super class.
RECURSIVE registerRemoteClassOrphan(_, _)
registerRemoteClassOrphan(st, classDescrJSON) ==
  IF classDescrJSON = <<>> THEN Ok(st, Undefined)
  ELSE registerRemoteClassOrphan(
         [st EXCEPT !.remoteClasses = @ \cup {Head(classDescrJSON).className}],
         Tail(classDescrJSON))

RECURSIVE registerRemoteClass(_, _)
registerRemoteClass(st, classDescrJSON) ==
  IF classDescrJSON = <<>> THEN Ok(st, Undefined)
  ELSE LET descr == Head(classDescrJSON) IN
       IF descr.className \in st.remoteClasses
       THEN registerRemoteClass(st, Tail(classDescrJSON))
       ELSE IF descr.extends # "" /\ descr.extends \notin st.remoteClasses
       THEN Threw(st, "unknown super class")
       ELSE registerRemoteClass(
              [st EXCEPT !.remoteClasses = @ \cup {descr.className}],
              Tail(classDescrJSON))

\* ------------------------------------------------------------ calls
\* What an activity of the application does with a stub: nothing, or it
\* awaits the operation verb of the stub, on the property name and with
\* arg; the verbs "iter" and "next" are those of a for await loop over the
\* stub, which has yielded values so far.
Doing(verb, stub, name, arg, yielded) ==
  [verb |-> verb, stub |-> stub, name |-> name, arg |-> arg,
   yielded |-> yielded]
Idle == Doing("none", 0, <<>>, Undefined, <<>>)
\* How an operation of a stub ended: the value its promise resolved to, or
\* the message it rejected with.  A loop resolves to what it yielded.
Outcome(state, doing, value) ==
  [state |-> state,
   verb |-> IF doing.verb \in {"iter", "next"} THEN "loop" ELSE doing.verb,
   stub |-> doing.stub, name |-> doing.name, arg |-> doing.arg,
   value |-> value]
NoResult == Outcome("none", Idle, Undefined)
Resolved(doing, value) == Outcome("resolved", doing, value)
Rejected(doing, message) ==
  Outcome("rejected", doing, [t |-> "error", message |-> message])

\* The state of the call with some callID: nobody awaits it, or the
\* application does, or a handler does (the class call of the handler that
\* answers request req has the callID req).
FreeCall == "free"
AppCall == "application"
HandlerCall == "handler"
\* How a call of the application ended: it resolved, or it rejected with
\* an error of some message.
Settled(r) ==
  IF r.status = "ok" THEN [state |-> "resolved", message |-> ""]
  ELSE [state |-> "rejected", message |-> r.val.message]
NotReturned == [state |-> "none", message |-> ""]

\* A message of a call, and the answer to the request req.
WithCall(m, c) ==
  [x \in DOMAIN m \cup {"callID"} |-> IF x = "callID" THEN c ELSE m[x]]
ClassMsg(descrs) == [verb |-> "class", descrs |-> descrs]
Answer(r, req) ==
  WithCall(IF r.status = "ok" THEN ReplyMsg(r.val) ELSE ErrorMsg(r.val), req)

\* A handler that has not answered its request req yet.  It waits for the
\* function it called ("invoked", value: what the function will return or
\* throw), or for the answer to its class call ("class", value: the object
\* it describes under id, toSend: the classes it still has to send, the
\* first of them being the one in flight).
Task(req, phase, value, id, toSend) ==
  [req |-> req, phase |-> phase, value |-> value, id |-> id, toSend |-> toSend]
RemoveAt(seq, k) == SubSeq(seq, 1, k - 1) \o SubSeq(seq, k + 1, Len(seq))

\* mapOutgoingObjects(value) up to its first wait for the peer: the whole
\* of it (toSend empty), or up to the first class message.  The objects
\* here hold plain values, so a marshal waits for class answers only.
beginMarshal(st, value, pick) ==
  IF value.t # "obj" \/ IsFunction(st, value)
  THEN [r |-> mapOutgoingObjects(st, value, pick, MaxDepth), toSend |-> <<>>,
        id |-> 0]
  ELSE LET g == getOrCreateIDForLocalObject(st, value, pick)
           toSend == classesToSend(g.st.localClasses, getClassName(g.st, value))
       IN IF g.status # "ok" THEN [r |-> Failed(g), toSend |-> <<>>, id |-> 0]
          ELSE IF toSend = <<>>
          THEN [r |-> createObjectDescription(g.st, value, g.val, pick,
                                              MaxDepth - 1),
                toSend |-> <<>>, id |-> g.val]
          ELSE [r |-> Ok([g.st EXCEPT !.localClasses = @ \cup Range(toSend)],
                         value),
                toSend |-> toSend, id |-> g.val]

\* The handler of request req marshals value, with queue and tasks being
\* what else the step leaves of the peer's queue and of its handlers: it
\* answers at once, or sends its first class description and waits.
Marshal(p, st, req, value, queue, tasks) ==
  \E pick \in Picks(p, value) : \E m \in {beginMarshal(st, value, pick)} :
    /\ m.r.status \in {"ok", "threw"}
    /\ SetPeer(p, m.r.st)
    /\ UNCHANGED <<returned, described, apiVars>>
    /\ IF m.toSend = <<>>
       THEN /\ chan' = [chan EXCEPT ![p] = queue,
                                    ![Other(p)] = Append(@, Answer(m.r, req))]
            /\ running' = [running EXCEPT ![p] = tasks]
            /\ UNCHANGED <<calls, sentClasses>>
       ELSE /\ chan' = [chan EXCEPT
                          ![p] = queue,
                          ![Other(p)] =
                             Append(@, WithCall(
                               ClassMsg(<<ClassDescr(Head(m.toSend))>>), req))]
            /\ running' = [running EXCEPT ![p] =
                             Append(tasks, Task(req, "class", value, m.id,
                                                m.toSend))]
            /\ calls' = [calls EXCEPT ![p][req] = HandlerCall]
            /\ sentClasses' = [sentClasses EXCEPT ![p] = @ \cup {Head(m.toSend)}]

\* The application calls start() of the client.
StartCall(p, t) ==
  /\ calls[p][t] = FreeCall
  /\ chan' = Send(Other(p), WithCall(Msg("start"), t))
  /\ calls' = [calls EXCEPT ![p][t] = AppCall]
  /\ UNCHANGED <<localIDsToObjects, localObjectsToIDs, localObjectRegistry,
                 remoteObjects, remoteObjectRegistry, stubs, alive,
                 localClasses, remoteClasses, heap, fleets, patched, issued,
                 startObject, running, returned, described, sentClasses,
                 apiVars>>

\* makeFunction: the application calls a function of a stub.
FuncCall(p, t, s, args) ==
  /\ calls[p][t] = FreeCall
  /\ \E pick \in Picks(p, ArrayOf(args)) :
       LET r == mapOutgoingObjects(PeerState(p), ArrayOf(args), pick, MaxDepth)
       IN /\ r.status = "ok"
          /\ SetPeer(p, r.st)
          /\ chan' = Send(Other(p),
                          WithCall(FuncMsg(stubs[p][s].id, N_go, r.val), t))
  /\ calls' = [calls EXCEPT ![p][t] = AppCall]
  /\ UNCHANGED <<running, returned, described, sentClasses, apiVars>>

\* The listener of "start": mapOutgoingObjects(startObject).
StartListener(p) ==
  /\ Incoming(p, "start")
  /\ Marshal(p, PeerState(p), Head(chan[p]).callID,
             boundStartObject(PeerState(p)), Tail(chan[p]), running[p])

\* funcListener up to the call of the function, which returns or throws
\* later on.
FuncInvoke(p) ==
  /\ Incoming(p, "func")
  /\ Head(chan[p]).name # N_next
  /\ LET m == Head(chan[p])
         args == funcListenerArgs(PeerState(p), m)
     IN /\ args.status \in {"ok", "threw"}
        /\ SetPeer(p, args.st)
        /\ IF args.status = "threw"
           THEN /\ chan' = TakeAndSend(p, <<Answer(args, m.callID)>>)
                /\ UNCHANGED running
           ELSE /\ chan' = TakeAndSend(p, <<>>)
                /\ \E outcome \in FuncOutcomes(args.st, p) :
                     running' = [running EXCEPT ![p] =
                        Append(@, Task(m.callID, "invoked", outcome, 0, <<>>))]
  /\ UNCHANGED <<calls, returned, described, sentClasses, apiVars>>

\* The function called has returned or thrown: funcListener goes on.
FuncSettle(p, k) ==
  /\ k \in 1 .. Len(running[p])
  /\ running[p][k].phase = "invoked"
  /\ LET task == running[p][k]
         result == callAndAwait(PeerState(p), task.value)
     IN IF result.status = "ok"
        THEN Marshal(p, result.st, task.req, result.val, chan[p],
                     RemoveAt(running[p], k))
        ELSE /\ SetPeer(p, result.st)
             /\ chan' = Send(Other(p), Answer(result, task.req))
             /\ running' = [running EXCEPT ![p] = RemoveAt(@, k)]
             /\ UNCHANGED <<calls, returned, described, sentClasses, apiVars>>

\* The listener of "class": registerRemoteClass.
ClassListener(p) ==
  /\ Incoming(p, "class")
  /\ LET m == Head(chan[p])
         r == registerRemoteClass(PeerState(p), m.descrs)
     IN /\ SetPeer(p, r.st)
        /\ chan' = TakeAndSend(p, <<Answer(r, m.callID)>>)
  /\ UNCHANGED callVars

\* The answer to the call c of p is at the head of its queue.
Answered(p) == chan[p] # <<>> /\ Head(chan[p]).verb \in {"reply", "error"}

\* await callRemote("class", [descr]) in sendClassDescription returns or
\* throws: the handler sends the next class of its chain, or the
\* description of its object, or the error.
ClassReturn(p) ==
  /\ Answered(p)
  /\ calls[p][Head(chan[p]).callID] = HandlerCall
  /\ LET m == Head(chan[p])
         c == m.callID
         k == CHOOSE j \in 1 .. Len(running[p]) : running[p][j].req = c
         task == running[p][k]
         rest == Tail(task.toSend)
         descr == createObjectDescription(PeerState(p), task.value, task.id,
                                          EmptyMap, MaxDepth - 1)
         thrown == Threw(PeerState(p), m.message)
     IN IF m.verb = "error"
        THEN /\ SetPeer(p, PeerState(p))
             /\ chan' = TakeAndSend(p, <<Answer(thrown, task.req)>>)
             /\ running' = [running EXCEPT ![p] = RemoveAt(@, k)]
             /\ calls' = [calls EXCEPT ![p][c] = FreeCall]
             /\ UNCHANGED <<returned, described, sentClasses, apiVars>>
        ELSE /\ described' = [described EXCEPT ![p] = @ \cup {Head(task.toSend)}]
             /\ UNCHANGED <<returned, apiVars>>
             /\ IF rest # <<>>
                THEN /\ SetPeer(p, PeerState(p))
                     /\ chan' = TakeAndSend(p,
                          <<WithCall(ClassMsg(<<ClassDescr(Head(rest))>>), c)>>)
                     /\ running' = [running EXCEPT ![p][k] =
                          Task(task.req, "class", task.value, task.id, rest)]
                     /\ sentClasses' = [sentClasses EXCEPT ![p] = @ \cup {Head(rest)}]
                     /\ UNCHANGED calls
                ELSE /\ descr.status \in {"ok", "threw"}
                     /\ SetPeer(p, descr.st)
                     /\ chan' = TakeAndSend(p, <<Answer(descr, task.req)>>)
                     /\ running' = [running EXCEPT ![p] = RemoveAt(@, k)]
                     /\ calls' = [calls EXCEPT ![p][c] = FreeCall]
                     /\ UNCHANGED sentClasses

\* await callRemote(...) of a stub's function or of start() returns or
\* throws: the caller maps the result, and its call resolves or rejects.
CallReturn(p) ==
  /\ Answered(p)
  /\ calls[p][Head(chan[p]).callID] = AppCall
  /\ LET m == Head(chan[p])
         r == IF m.verb = "reply" THEN mapIncomingObjects(PeerState(p), m.value)
              ELSE Threw(PeerState(p), m.message)
     IN /\ r.status \in {"ok", "threw"}
        /\ SetPeer(p, r.st)
        /\ calls' = [calls EXCEPT ![p][m.callID] = FreeCall]
        /\ returned' = [returned EXCEPT ![p] = Settled(r)]
        /\ chan' = TakeAndSend(p, <<>>)
  /\ UNCHANGED <<running, described, sentClasses, apiVars>>

\* ------------------------------------------------------------ stub operations
\* What registerRemoteClass puts on the prototype of the stubs of className
\* and, through Object.create(parent), its ancestors: the functions, the
\* getters, and the setters of the getters that have one.
stubFunctions(className) ==
  UNION {DescribedNames(c, {"function"}) : c \in Ancestors(className)}
stubGetters(className) ==
  UNION {DescribedNames(c, {"getter", "getset"}) : c \in Ancestors(className)}
stubSetters(className) ==
  UNION {DescribedNames(c, {"getset"}) : c \in Ancestors(className)}

\* stub[Symbol.asyncIterator] of the stubs of className, from the nearest
\* prototype that has one: "this" if a loop has overwritten it with
\* function() { return this; }, else the symbol name makeIterator was given,
\* "" if there is none.
RECURSIVE asyncIteratorOf(_, _)
asyncIteratorOf(st, className) ==
  IF className \in {"Object", "Function"} THEN ""
  ELSE IF className \in st.patched THEN "this"
  ELSE IF iteratorTag(className) # "" THEN iteratorTag(className)
  ELSE asyncIteratorOf(st, ParentOf(className))

GetMsg(id, name) == [verb |-> "get", obj |-> id, name |-> name]
SetMsg(id, name, value) ==
  [verb |-> "set", obj |-> id, name |-> name, value |-> value]
NewMsg(className, args) == [verb |-> "new", className |-> className, args |-> args]
CallMsg(id, args) == [verb |-> "call", obj |-> id, args |-> args]
IterMsg(id, symbol) == [verb |-> "iter", obj |-> id, symbol |-> symbol]

\* The call of a stub operation, which the activity awaits.
ApiCall == "stub operation"
\* The values the application sets a property to.
SetValues == {Prim(1), Prim(2)}

\* The application is free to use the stub s, a classed one or a callable.
CanUse(p, t, s) ==
  /\ calls[p][t] = FreeCall
  /\ stubs[p][s].state = "live"
ClassedStub(p, s) == stubs[p][s].className # "Function"

\* obj[name] of a local object: an own property, or an accessor of its
\* class (Fleet: owner gives _owner), or undefined.  A method shows as a
\* function, which the model has no value for.
readPropertyStale(st, obj, name) == Ok(st, NewFleet.owner)

readProperty(st, obj, name) ==
  LET o == obj.o
      kinds == {ProtoProps(c)[name] :
                  c \in {a \in Ancestors(ClassOf(o)) : name \in DOMAIN ProtoProps(a)}}
  IN IF obj.t # "obj" THEN Blocked(st)
     ELSE IF name \in DOMAIN OwnProps(o) THEN Ok(st, OwnProps(o)[name].value)
     ELSE IF kinds = {} THEN Ok(st, Undefined)
     ELSE IF ClassOf(o) = "Fleet" /\ name = N_owner
     THEN Ok(st, st.fleets[o].owner)
     ELSE Blocked(st)

\* A version that keeps the old value.
writePropertyDropped(st, obj, name, value) == Ok(st, Undefined)

\* obj[name] = value: the accessor of Fleet stores value in _owner; a
\* getter without a setter throws in strict mode.
writeProperty(st, obj, name, value) ==
  LET o == obj.o
      kinds == {ProtoProps(c)[name] :
                  c \in {a \in Ancestors(ClassOf(o)) : name \in DOMAIN ProtoProps(a)}}
  IN IF obj.t # "obj" THEN Blocked(st)
     ELSE IF ClassOf(o) = "Fleet" /\ name = N_owner
     THEN Ok([st EXCEPT !.fleets[o].owner = value], Undefined)
     ELSE IF "getter" \in kinds THEN Threw(st, "TypeError")
     ELSE Blocked(st)

\* getterListener up to mapOutgoingObjects(value).
getterListener(st, payload) ==
  LET obj == getLocalObject(st, KeyOf(payload.obj)) IN
  IF payload.obj.t # "str" THEN Threw(st, "Need object ID")
  ELSE IF obj.status # "ok" THEN Failed(obj)
  ELSE readProperty(obj.st, obj.val, payload.name)

setterListener(st, payload) ==
  LET obj == getLocalObject(st, KeyOf(payload.obj))
      value == mapIncomingObjects(obj.st, payload.value)
  IN IF payload.obj.t # "str" THEN Threw(st, "Need object ID")
     ELSE IF obj.status # "ok" THEN Failed(obj)
     ELSE IF value.status # "ok" THEN Failed(value)
     ELSE writeProperty(value.st, obj.val, payload.name, value.val)

\* classCtor(...args), with classCtor = global[className]: a class
\* constructor called without new throws, and so does undefined when the
\* class is no property of global.
construct(st, className, args) == Threw(st, "TypeError")

\* newObjListener up to createObjectDescription(obj, ...).
newObjListener(st, payload) ==
  LET args == mapIncomingObjects(st, payload.args) IN
  IF args.status # "ok" THEN Failed(args)
  ELSE construct(args.st, payload.className, args.val)

\* obj[Symbol[symbol]](): [Symbol.iterator]() of a Fleet sets _pos to 0
\* and returns the Fleet; other objects have no such method.
iterListener(st, payload) ==
  LET obj == getLocalObject(st, KeyOf(payload.obj))
      o == obj.val.o
  IN IF payload.obj.t # "str" THEN Threw(st, "Need object ID")
     ELSE IF obj.status # "ok" THEN Failed(obj)
     ELSE IF obj.val.t = "obj" /\ ClassOf(o) \in IterableClasses
             /\ payload.symbol = "iterator"
     THEN Ok([obj.st EXCEPT !.fleets[o].pos = 0], obj.val)
     ELSE Threw(obj.st, "TypeError")

\* next() of a Fleet: the item at _pos, or done.
nextOf(st, o) ==
  LET pos == st.fleets[o].pos IN
  IF pos < Len(Items)
  THEN Ok([st EXCEPT !.fleets[o].pos = pos + 1],
          Record((N_value :> Items[pos + 1]) @@ (N_done :> Bool(FALSE))))
  ELSE Ok(st, Record((N_value :> Undefined) @@ (N_done :> Bool(TRUE))))

\* funcListener for the function next, up to mapOutgoingObjects(result).
funcListenerNext(st, payload) ==
  LET args == funcListenerArgs(st, payload)
      obj == getLocalObject(st, KeyOf(payload.obj)).val
  IN IF args.status # "ok" THEN Failed(args)
     ELSE IF obj.t = "obj" /\ N_next \in stubFunctions(ClassOf(obj.o))
     THEN nextOf(args.st, obj.o)
     ELSE Threw(args.st, "TypeError")

\* A listener has run up to mapOutgoingObjects(value): it answers with the
\* error it threw, or goes on to marshal.
AnswerWith(p, r) ==
  /\ r.status \in {"ok", "threw"}
  /\ IF r.status = "threw"
     THEN /\ SetPeer(p, r.st)
          /\ chan' = TakeAndSend(p, <<Answer(r, Head(chan[p]).callID)>>)
          /\ UNCHANGED callVars
     ELSE Marshal(p, r.st, Head(chan[p]).callID, r.val, Tail(chan[p]),
                  running[p])

GetListener(p) ==
  /\ Incoming(p, "get")
  /\ \E r \in {getterListener(PeerState(p), Head(chan[p]))} : AnswerWith(p, r)

\* setterListener returns nothing.
SetListener(p) ==
  /\ Incoming(p, "set")
  /\ \E r \in {setterListener(PeerState(p), Head(chan[p]))} :
        /\ r.status \in {"ok", "threw"}
        /\ SetPeer(p, r.st)
        /\ chan' = TakeAndSend(p, <<Answer(r, Head(chan[p]).callID)>>)
  /\ UNCHANGED callVars

NewListener(p) ==
  /\ Incoming(p, "new")
  /\ \E r \in {newObjListener(PeerState(p), Head(chan[p]))} : AnswerWith(p, r)

IterListener(p) ==
  /\ Incoming(p, "iter")
  /\ \E r \in {iterListener(PeerState(p), Head(chan[p]))} : AnswerWith(p, r)

FuncNext(p) ==
  /\ Incoming(p, "func")
  /\ Head(chan[p]).name = N_next
  /\ \E r \in {funcListenerNext(PeerState(p), Head(chan[p]))} :
       AnswerWith(p, r)

\* callListener up to the call of func, which returns or throws later on;
\* a func that is no function throws at once.
CallInvoke(p) ==
  /\ Incoming(p, "call")
  /\ LET m == Head(chan[p])
         args == funcListenerArgs(PeerState(p), m)
         func == getLocalObject(PeerState(p), KeyOf(m.obj)).val
         r == IF args.status = "ok" /\ ~IsFunction(args.st, func)
              THEN Threw(args.st, "TypeError") ELSE args
     IN /\ r.status \in {"ok", "threw"}
        /\ SetPeer(p, r.st)
        /\ IF r.status = "threw"
           THEN /\ chan' = TakeAndSend(p, <<Answer(r, m.callID)>>)
                /\ UNCHANGED running
           ELSE /\ chan' = TakeAndSend(p, <<>>)
                /\ \E outcome \in FuncOutcomes(r.st, p) :
                     running' = [running EXCEPT ![p] =
                        Append(@, Task(m.callID, "invoked", outcome, 0, <<>>))]
  /\ UNCHANGED <<calls, returned, described, sentClasses, apiVars>>

\* The application starts the operation verb of a stub: it sends m.
Operate(p, t, m, doing) ==
  /\ chan' = Send(Other(p), WithCall(m, t))
  /\ calls' = [calls EXCEPT ![p][t] = ApiCall]
  /\ awaited' = [awaited EXCEPT ![p][t] = doing]
  /\ UNCHANGED <<localIDsToObjects, localObjectsToIDs, localObjectRegistry,
                 remoteObjects, remoteObjectRegistry, stubs, alive,
                 localClasses, remoteClasses, heap, fleets, patched, issued,
                 startObject, running, returned, described, sentClasses,
                 ended>>

\* makeGetter: await stub[name].
GetCall(p, t, s, name) ==
  /\ CanUse(p, t, s) /\ ClassedStub(p, s)
  /\ name \in stubGetters(stubs[p][s].className)
  /\ Operate(p, t, GetMsg(stubs[p][s].id, name),
             Doing("get", s, name, Undefined, <<>>))

\* makeSetter: await stub.setName(val).
SetCall(p, t, s, name, val) ==
  /\ CanUse(p, t, s) /\ ClassedStub(p, s)
  /\ name \in stubSetters(stubs[p][s].className)
  /\ Operate(p, t, SetMsg(stubs[p][s].id, name, val),
             Doing("set", s, name, val, <<>>))

\* makeNewObj: await stub.newRemote().
NewCall(p, t, s) ==
  /\ CanUse(p, t, s) /\ ClassedStub(p, s)
  /\ Operate(p, t, NewMsg(stubs[p][s].className, ArrayOf(<<>>)),
             Doing("new", s, <<>>, Undefined, <<>>))

\* makeCallable: await stub().
InvokeCallable(p, t, s) ==
  /\ CanUse(p, t, s) /\ ~ClassedStub(p, s)
  /\ Operate(p, t, CallMsg(Str(stubs[p][s].regId), ArrayOf(<<>>)),
             Doing("call", s, <<>>, Undefined, <<>>))

\* for await (value of remote): remote[Symbol.asyncIterator]() gives remote,
\* and the loop awaits remote.next(), a function of the stub if the class
\* has one.
pull(st, s, t, yielded) ==
  IF N_next \in stubFunctions(st.stubs[s].className)
  THEN [out |-> <<WithCall(FuncMsg(st.stubs[s].id, N_next, ArrayOf(<<>>)), t)>>,
        awaited |-> Doing("next", s, N_next, Undefined, yielded),
        call |-> ApiCall]
  ELSE [out |-> <<>>, awaited |-> Idle, call |-> FreeCall]

\* How the loop of the activity goes on after a step: it waits for what it
\* pulled (next.out sent), or it has ended as the step says.
LoopOn(p, t, next, end) ==
  /\ calls' = [calls EXCEPT ![p][t] = next.call]
  /\ awaited' = [awaited EXCEPT ![p][t] = next.awaited]
  /\ ended' = IF next.call = FreeCall THEN [ended EXCEPT ![p] = end]
              ELSE ended
  /\ UNCHANGED <<running, returned, described, sentClasses>>

\* The application starts for await (value of stub): the generator of
\* makeIterator asks for the iterator, or, with the prototype overwritten,
\* the loop pulls from the stub itself.
LoopStart(p, t, s) ==
  /\ CanUse(p, t, s) /\ ClassedStub(p, s)
  /\ asyncIteratorOf(PeerState(p), stubs[p][s].className) # ""
  /\ IF asyncIteratorOf(PeerState(p), stubs[p][s].className) = "this"
     THEN LET next == pull(PeerState(p), s, t, <<>>) IN
          /\ chan' = [chan EXCEPT ![Other(p)] = @ \o next.out]
          /\ LoopOn(p, t, next,
                    Rejected(Doing("next", s, N_next, Undefined, <<>>),
                             "TypeError"))
          /\ UNCHANGED <<localIDsToObjects, localObjectsToIDs,
                         localObjectRegistry, remoteObjects,
                         remoteObjectRegistry, stubs, alive, localClasses,
                         remoteClasses, heap, fleets, patched, issued,
                         startObject>>
     ELSE Operate(p, t,
                  IterMsg(stubs[p][s].id,
                          asyncIteratorOf(PeerState(p), stubs[p][s].className)),
                  Doing("iter", s, <<>>, Undefined, <<>>))

\* The answer to a stub operation of activity t is at the head of the queue.
ApiAnswered(p, verbs) ==
  /\ Answered(p)
  /\ calls[p][Head(chan[p]).callID] = ApiCall
  /\ awaited[p][Head(chan[p]).callID].verb \in verbs

\* await callRemote(...) of a getter, a setter, newRemote or a callable
\* returns or throws.  All but the setter map the result.
ApiReturn(p) ==
  /\ ApiAnswered(p, {"get", "set", "new", "call"})
  /\ LET m == Head(chan[p])
         verb == awaited[p][m.callID].verb
     IN \E r \in {IF m.verb = "error" THEN Threw(PeerState(p), m.message)
                   ELSE IF verb = "set" THEN Ok(PeerState(p), m.value)
                   ELSE mapIncomingObjects(PeerState(p), m.value)} :
        /\ r.status \in {"ok", "threw"}
        /\ SetPeer(p, r.st)
        /\ chan' = TakeAndSend(p, <<>>)
        /\ calls' = [calls EXCEPT ![p][m.callID] = FreeCall]
        /\ awaited' = [awaited EXCEPT ![p][m.callID] = Idle]
        /\ ended' = [ended EXCEPT ![p] =
                       IF r.status = "ok"
                       THEN Resolved(awaited[p][m.callID], r.val)
                       ELSE Rejected(awaited[p][m.callID], r.val.message)]
  /\ UNCHANGED <<running, returned, described, sentClasses>>

\* mapIncomingObjects of the answer m, or what the call throws.
mapAnswer(st, m) ==
  IF m.verb = "error" THEN Threw(st, m.message)
  ELSE mapIncomingObjects(st, m.value)
Ended == [out |-> <<>>, awaited |-> Idle, call |-> FreeCall]

\* The generator of makeIterator has the answer to "iter": it overwrites
\* [Symbol.asyncIterator] of the prototype of remote and starts the loop
\* over remote.  A remote that is no classed stub has no next.
IterReturn(p) ==
  /\ ApiAnswered(p, {"iter"})
  /\ \E r \in {mapAnswer(PeerState(p), Head(chan[p]))} :
     LET t == Head(chan[p]).callID
         classed == /\ r.status = "ok" /\ r.val.t = "stub"
                    /\ r.st.stubs[r.val.s].className # "Function"
         st == IF classed
               THEN [r.st EXCEPT !.patched = @ \cup {r.st.stubs[r.val.s].className}]
               ELSE r.st
         next == IF classed THEN pull(st, r.val.s, t, <<>>) ELSE Ended
     IN /\ r.status \in {"ok", "threw"}
        /\ SetPeer(p, st)
        /\ chan' = TakeAndSend(p, next.out)
        /\ LoopOn(p, t, next,
                  Rejected(awaited[p][t],
                           IF r.status = "threw" THEN r.val.message
                           ELSE "TypeError"))

\* The loop has the answer to next(): a result that is done ends it, any
\* other one yields its value and the loop pulls again.  A result that is
\* no object throws.  The result object is garbage once read.
PullReturn(p) ==
  /\ ApiAnswered(p, {"next"})
  /\ \E r \in {mapAnswer(PeerState(p), Head(chan[p]))} :
     LET t == Head(chan[p]).callID
         doing == awaited[p][t]
         object == r.status = "ok" /\ r.val.t = "plain"
         result == r.st.heap[r.val.a]
         done == N_done \in DOMAIN result /\ Truthy(result[N_done])
         value == IF N_value \in DOMAIN result THEN result[N_value]
                  ELSE Undefined
         st == IF object THEN [r.st EXCEPT !.heap = SubSeq(@, 1, r.val.a - 1)]
               ELSE r.st
         next == IF object /\ ~done
                 THEN pull(st, doing.stub, t, Append(doing.yielded, value))
                 ELSE Ended
     IN /\ r.status \in {"ok", "threw"}
        /\ SetPeer(p, st)
        /\ chan' = TakeAndSend(p, next.out)
        /\ LoopOn(p, t, next,
                  IF object /\ done THEN Resolved(doing, ArrayOf(doing.yielded))
                  ELSE Rejected(doing, IF r.status = "threw" THEN r.val.message
                                       ELSE "TypeError"))

\* ------------------------------------------------------------ specification
\* Both peers have started and nothing is exposed yet.
Started ==
  /\ localIDsToObjects = [p \in Peers |-> EmptyMap]
  /\ localObjectsToIDs = [p \in Peers |-> EmptyMap]
  /\ localObjectRegistry = [p \in Peers |-> {}]
  /\ remoteObjects = [p \in Peers |-> EmptyMap]
  /\ remoteObjectRegistry = [p \in Peers |-> {}]
  /\ stubs = [p \in Peers |-> [k \in 1 .. MaxStubs |-> FreeSlot]]
  /\ heap = [p \in Peers |-> <<>>]
  /\ fleets = [p \in Peers |-> [o \in FleetObjs(p) |-> NewFleet]]
  /\ patched = [p \in Peers |-> {}]
  /\ issued = [p \in Peers |-> {}]
  /\ awaited = [p \in Peers |-> [t \in Threads |-> Idle]]
  /\ ended = [p \in Peers |-> NoResult]
  /\ chan = [p \in Peers |-> <<>>]
  /\ running = [p \in Peers |-> <<>>]
  /\ calls = [p \in Peers |-> [c \in Threads |-> FreeCall]]
  /\ returned = [p \in Peers |-> NotReturned]

\* A serves the objects a1 (its start object) and a2, whose classes the
\* peers have exchanged before.
Init ==
  /\ Started
  /\ alive = [p \in Peers |-> LocalObjs(p) \cap {"a1", "a2"}]
  /\ startObject = [p \in Peers |-> "a1"]
  /\ localClasses = [p \in Peers |-> ClassNames]
  /\ remoteClasses = [p \in Peers |-> ClassNames]
  /\ described = [p \in Peers |-> ClassNames]
  /\ sentClasses = [p \in Peers |-> ClassNames]

Next ==
  \E p \in Peers :
    \/ p \in Clients /\ CallStart(p)
    \/ HandleStart(p)
    \/ \E s \in 1 .. MaxStubs :
         stubs[p][s].state = "live" /\ CallFunc(p, s, <<>>)
    \/ HandleFunc(p)
    \/ HandleReply(p)
    \/ HandleError(p)
    \/ HandleDel(p)
    \/ \E s \in 1 .. MaxStubs : CollectStub(p, s)
    \/ RemoteFinalizer(p)
    \/ \E o \in LocalObjs(p) : CollectLocal(p, o)
    \/ LocalFinalizer(p)

Spec == Init /\ [][Next]_vars

\* A serves a0 (its start object), a1 and a3; no class is described yet.
InitCall ==
  /\ Started
  /\ alive = [p \in Peers |-> LocalObjs(p) \cap {"a0", "a1", "a3"}]
  /\ startObject = [p \in Peers |-> "a0"]
  /\ localClasses = [p \in Peers |-> {}]
  /\ remoteClasses = [p \in Peers |-> {}]
  /\ described = [p \in Peers |-> {}]
  /\ sentClasses = [p \in Peers |-> {}]

\* The arguments of a call: none, or one of the stubs the peer holds.
ArgLists(p) ==
  {<<>>} \cup {<<StubRef(s)>> : s \in {k \in 1 .. MaxStubs :
                                        stubs[p][k].state = "live"}}

\* The calls of two activities and their handlers, which send class
\* descriptions and wait for the answers; nothing is collected.
NextCall ==
  \E p \in Peers :
    \/ \E t \in Threads : p \in Clients /\ StartCall(p, t)
    \/ \E t \in Threads : \E s \in 1 .. MaxStubs : \E args \in ArgLists(p) :
         stubs[p][s].state = "live" /\ FuncCall(p, t, s, args)
    \/ StartListener(p)
    \/ FuncInvoke(p)
    \/ \E k \in DOMAIN running[p] : FuncSettle(p, k)
    \/ ClassListener(p)
    \/ ClassReturn(p)
    \/ CallReturn(p)

SpecCall == InitCall /\ [][NextCall]_vars

\* A serves the Fleet a4 (its start object), the function f1 and a0; no
\* class is described yet.
InitApi ==
  /\ Started
  /\ alive = [p \in Peers |-> LocalObjs(p) \cap {"a4", "f1", "a0"}]
  /\ startObject = [p \in Peers |-> "a4"]
  /\ localClasses = [p \in Peers |-> {}]
  /\ remoteClasses = [p \in Peers |-> {}]
  /\ described = [p \in Peers |-> {}]
  /\ sentClasses = [p \in Peers |-> {}]

\* A serves the function f1 (its start object), a0 and a2, whose classes
\* the peers have exchanged before.
InitGC ==
  /\ Started
  /\ alive = [p \in Peers |-> LocalObjs(p) \cap {"f1", "a0", "a2"}]
  /\ startObject = [p \in Peers |-> "f1"]
  /\ localClasses = [p \in Peers |-> ClassNames]
  /\ remoteClasses = [p \in Peers |-> ClassNames]
  /\ described = [p \in Peers |-> ClassNames]
  /\ sentClasses = [p \in Peers |-> ClassNames]

\* The one activity of the client, which awaits each operation before it
\* starts the next.
Main == "t1"

\* Every operation of the stubs, one at a time, and the listeners.
NextApi ==
  \E p \in Peers :
    \/ p \in Clients /\ StartCall(p, Main)
    \/ \E s \in 1 .. MaxStubs :
         CanUse(p, Main, s) /\ ClassedStub(p, s) /\ FuncCall(p, Main, s, <<>>)
    \/ \E s \in 1 .. MaxStubs : \E name \in {N_owner, N_speed} :
         GetCall(p, Main, s, name)
    \/ \E s \in 1 .. MaxStubs : \E val \in SetValues :
         SetCall(p, Main, s, N_owner, val)
    \/ \E s \in 1 .. MaxStubs : NewCall(p, Main, s)
    \/ \E s \in 1 .. MaxStubs : InvokeCallable(p, Main, s)
    \/ \E s \in 1 .. MaxStubs : LoopStart(p, Main, s)
    \/ StartListener(p)
    \/ FuncInvoke(p)
    \/ FuncNext(p)
    \/ \E k \in DOMAIN running[p] : FuncSettle(p, k)
    \/ GetListener(p)
    \/ SetListener(p)
    \/ NewListener(p)
    \/ CallInvoke(p)
    \/ IterListener(p)
    \/ ClassListener(p)
    \/ ClassReturn(p)
    \/ CallReturn(p)
    \/ ApiReturn(p)
    \/ IterReturn(p)
    \/ PullReturn(p)

SpecApi == InitApi /\ [][NextApi]_vars

\* The calls of a function and of what it returns, and the garbage
\* collection of stubs and objects.
NextGC ==
  \E p \in Peers :
    \/ p \in Clients /\ CanSend /\ StartCall(p, Main)
    \/ \E s \in 1 .. MaxStubs : CanSend /\ InvokeCallable(p, Main, s)
    \/ StartListener(p)
    \/ CallInvoke(p)
    \/ \E k \in DOMAIN running[p] : FuncSettle(p, k)
    \/ CallReturn(p)
    \/ ApiReturn(p)
    \/ HandleDel(p)
    \/ \E s \in 1 .. MaxStubs : CollectStub(p, s)
    \/ RemoteFinalizer(p)
    \/ \E o \in LocalObjs(p) : CollectLocal(p, o)
    \/ LocalFinalizer(p)

SpecGC == InitGC /\ [][NextGC]_vars

\* A serves the function f1 (its start object), which returns the Fleet a4;
\* no class is described yet.
InitLive ==
  /\ Started
  /\ alive = [p \in Peers |-> LocalObjs(p) \cap {"a4", "f1"}]
  /\ startObject = [p \in Peers |-> "f1"]
  /\ localClasses = [p \in Peers |-> {}]
  /\ remoteClasses = [p \in Peers |-> {}]
  /\ described = [p \in Peers |-> {}]
  /\ sentClasses = [p \in Peers |-> {}]

\* The application starts an operation when the transport takes the
\* request and the peer has room for the stub the answer may bring.
Ready(p) == CanSend /\ FreeSlots(PeerState(p)) # {}

\* What the application of the client does: every operation of the stubs,
\* one at a time, and dropping the callable stubs it holds.
ClientLive(p) ==
  \/ p \in Clients /\ Ready(p) /\ StartCall(p, Main)
  \/ \E s \in 1 .. MaxStubs :
       /\ Ready(p) /\ CanUse(p, Main, s)
       /\ \/ ClassedStub(p, s) /\ FuncCall(p, Main, s, <<>>)
          \/ GetCall(p, Main, s, N_owner)
          \/ \E val \in SetValues : SetCall(p, Main, s, N_owner, val)
          \/ NewCall(p, Main, s)
          \/ InvokeCallable(p, Main, s)
          \/ LoopStart(p, Main, s)
  \/ \E s \in 1 .. MaxStubs : ~ClassedStub(p, s) /\ CollectStub(p, s)

\* What the program does on its own: the listeners, the calls that
\* return, and the "del" listener.
Serve(p) ==
  \/ StartListener(p)
  \/ FuncInvoke(p)
  \/ FuncNext(p)
  \/ \E k \in DOMAIN running[p] : FuncSettle(p, k)
  \/ GetListener(p)
  \/ SetListener(p)
  \/ NewListener(p)
  \/ CallInvoke(p)
  \/ IterListener(p)
  \/ ClassListener(p)
  \/ ClassReturn(p)
  \/ CallReturn(p)
  \/ ApiReturn(p)
  \/ IterReturn(p)
  \/ PullReturn(p)
  \/ HandleDel(p)

NextLive ==
  \E p \in Peers :
    \/ ClientLive(p)
    \/ Serve(p)
    \/ RemoteFinalizer(p)

\* The event loop of each peer runs every listener and every continuation
\* that is ready, and the functions of the application return or throw.
Fairness == \A p \in Peers : WF_vars(Serve(p))

SpecLive == InitLive /\ [][NextLive]_vars /\ Fairness

\* --------------------------------------------------------- both ways
\* Each peer serves an object of its own and is the client of the other:
\* A serves the Car a1, B the Garage b1, and neither has sent a class.
InitBoth ==
  /\ Started
  /\ alive = [p \in Peers |-> LocalObjs(p) \cap {"a1", "b1"}]
  /\ startObject = [p \in Peers |-> IF p = "A" THEN "a1" ELSE "b1"]
  /\ localClasses = [p \in Peers |-> {}]
  /\ remoteClasses = [p \in Peers |-> {}]
  /\ described = [p \in Peers |-> {}]
  /\ sentClasses = [p \in Peers |-> {}]

\* The activity of the application of each peer; its name is the callID
\* of its calls, which differ from those of the other peer.
AppOf(p) == IF p \in Clients THEN Main ELSE "t2"

\* The application of p asks for the start object of the other peer or
\* calls a function of a stub it holds, one call at a time.
ClientBoth(p) ==
  \/ StartCall(p, AppOf(p))
  \/ \E s \in 1 .. MaxStubs :
       /\ CanUse(p, AppOf(p), s) /\ ClassedStub(p, s)
       /\ FuncCall(p, AppOf(p), s, <<>>)

\* The peer p takes the message at the head of its queue: a request goes
\* to its listener and an answer to the call that awaits it.
Dispatch(p) ==
  \/ StartListener(p)
  \/ FuncInvoke(p)
  \/ ClassListener(p)
  \/ ClassReturn(p)
  \/ CallReturn(p)
\* A function of the application that a listener called returns or throws.
Settle(p) == \E k \in DOMAIN running[p] : FuncSettle(p, k)

NextBoth ==
  \E p \in Peers :
    \/ ClientBoth(p)
    \/ Dispatch(p)
    \/ Settle(p)

\* The transport delivers every message, the event loop of a peer runs
\* every listener and continuation that is ready, and the functions of
\* the application end.
FairnessBoth ==
  \A p \in Peers : WF_vars(Dispatch(p)) /\ WF_vars(Settle(p))
SpecBoth == InitBoth /\ [][NextBoth]_vars /\ FairnessBoth

\* ------------------------------------------------------------ releases
\* A serves the function f1, its start object, which may return itself;
\* the peers have exchanged the classes before.
InitRelease ==
  /\ Started
  /\ alive = [p \in Peers |-> LocalObjs(p) \cap {"f1"}]
  /\ startObject = [p \in Peers |-> "f1"]
  /\ localClasses = [p \in Peers |-> ClassNames]
  /\ remoteClasses = [p \in Peers |-> ClassNames]
  /\ described = [p \in Peers |-> ClassNames]
  /\ sentClasses = [p \in Peers |-> ClassNames]

\* The peer p takes the message at the head of its queue.
Deliver(p) ==
  \/ StartListener(p)
  \/ CallInvoke(p)
  \/ CallReturn(p)
  \/ ApiReturn(p)
  \/ HandleDel(p)

NextRelease ==
  \E p \in Peers :
    \/ p \in Clients /\ CanSend /\ StartCall(p, Main)
    \/ \E s \in 1 .. MaxStubs : CanSend /\ InvokeCallable(p, Main, s)
    \/ Deliver(p)
    \/ Settle(p)
    \/ \E s \in 1 .. MaxStubs : CollectStub(p, s)
    \/ Finalize(p)

\* The transport delivers every message, the functions of the application
\* end, and the callback of every collected stub runs.
FairnessRelease ==
  \A p \in Peers :
    /\ WF_vars(Deliver(p)) /\ WF_vars(Settle(p))
    /\ \A s \in 1 .. MaxStubs : WF_vars(FinalizeStub(p, s))
SpecRelease == InitRelease /\ [][NextRelease]_vars /\ FairnessRelease

\* ----------------------------------------------------- the connection
\* The transport fails: callRemote throws once the connection disappeared
\* (its contract in the protocol class), and nothing is delivered any
\* more.  Each peer finds the closing of the connection at the head of
\* its queue.
Closed == Msg("closed")
Lost == \E p \in Peers : Head_(p, "closed")
ConnectionLost == "ConnectionLost"

\* A transport that forgets the calls it has sent when it closes.
rejectNone(p) == calls[p]
\* The calls of the peer p after the failure: the promise of every call
\* that waited for its answer has rejected.
rejectPending(p) == [c \in Threads |-> FreeCall]
\* What the application of p sees of the call it awaited: the operation
\* of the stub rejects, as no function of a stub catches what callRemote
\* throws; so does the call for the start object.
lostOutcome(p) ==
  IF \E t \in Threads : calls[p][t] = ApiCall
  THEN Rejected(awaited[p][CHOOSE t \in Threads : calls[p][t] = ApiCall],
                ConnectionLost)
  ELSE ended[p]
lostReturn(p) ==
  IF \E t \in Threads : calls[p][t] = AppCall
  THEN [state |-> "rejected", message |-> ConnectionLost]
  ELSE returned[p]

\* The connection disappears.  The messages in flight are lost, every
\* call waiting at either peer rejects, and the listeners that waited for
\* a class call or for a function end without an answer to send.
Disconnect ==
  /\ ~Lost
  /\ chan' = [p \in Peers |-> <<Closed>>]
  /\ calls' = [p \in Peers |-> rejectPending(p)]
  /\ awaited' = [p \in Peers |-> [t \in Threads |-> Idle]]
  /\ ended' = [p \in Peers |-> lostOutcome(p)]
  /\ returned' = [p \in Peers |-> lostReturn(p)]
  /\ running' = [p \in Peers |-> <<>>]
  /\ UNCHANGED <<localIDsToObjects, localObjectsToIDs, localObjectRegistry,
                 remoteObjects, remoteObjectRegistry, stubs, alive,
                 localClasses, remoteClasses, heap, fleets, patched, issued,
                 startObject, described, sentClasses>>

\* The operations of a stub: of a callable stub the call, of any other
\* the rest.
LostVerbs(p, s) ==
  IF ClassedStub(p, s) THEN {"get", "set", "func", "new"} ELSE {"call"}
\* An operation of the stub s after the failure: callRemote throws at
\* once and the operation rejects; no call is left waiting.
LostCall(p, t, s, verb) ==
  /\ Lost /\ CanUse(p, t, s) /\ verb \in LostVerbs(p, s)
  /\ ended' = [ended EXCEPT
       ![p] = Rejected(Doing(verb, s, IF verb \in {"get", "set"}
                                      THEN N_owner ELSE <<>>,
                             Undefined, <<>>),
                       ConnectionLost)]
  /\ UNCHANGED <<localIDsToObjects, localObjectsToIDs, localObjectRegistry,
                 remoteObjects, remoteObjectRegistry, stubs, alive,
                 localClasses, remoteClasses, heap, fleets, patched, issued,
                 startObject, chan, running, calls, returned, described,
                 sentClasses, awaited>>
\* The call for the start object after the failure.
LostStart(p, t) ==
  /\ Lost /\ calls[p][t] = FreeCall
  /\ returned' = [returned EXCEPT
       ![p] = [state |-> "rejected", message |-> ConnectionLost]]
  /\ UNCHANGED <<localIDsToObjects, localObjectsToIDs, localObjectRegistry,
                 remoteObjects, remoteObjectRegistry, stubs, alive,
                 localClasses, remoteClasses, heap, fleets, patched, issued,
                 startObject, chan, running, calls, described, sentClasses,
                 apiVars>>

\* The peers work as long as the connection holds; it may fail at any
\* time, and the application of the client goes on using its stubs.
NextLost ==
  \/ ~Lost /\ NextLive
  \/ Disconnect
  \/ \E p \in Clients :
       \/ LostStart(p, Main)
       \/ \E s \in 1 .. MaxStubs : \E verb \in LostVerbs(p, s) :
            LostCall(p, Main, s, verb)
SpecLost == InitLive /\ [][NextLost]_vars

\* ------------------------------------------------------------ the tables
\* The operations of the tables applied one by one: those of the local
\* objects at the peer that serves objects, those of the remote objects at
\* the client, with what any program at the other end may send it.
Servers == Peers \ Clients

\* How the operation verb of the tables ended: it returned or it threw.
Applied(verb, r) ==
  Outcome(IF r.status = "ok" THEN "resolved" ELSE "rejected",
          Doing(verb, 0, <<>>, Undefined, <<>>), Undefined)

\* The operation leaves the peer in r.st and has returned or thrown.
Apply(p, verb, r) ==
  /\ r.status \in {"ok", "threw"}
  /\ SetPeer(p, r.st)
  /\ ended' = [ended EXCEPT ![p] = Applied(verb, r)]
  /\ UNCHANGED <<chan, running, calls, returned, described, sentClasses,
                 awaited>>

\* getOrCreateIDForLocalObject(obj), for a local object or function.
IdFor(p, o) ==
  /\ o \in alive[p]
  /\ \E pick \in [{ObjRef(o)} \ DOMAIN localObjectsToIDs[p] ->
                    IF generateNewObjID(PeerState(p)) = {} THEN {0}
                    ELSE generateNewObjID(PeerState(p))] :
     \E r \in {getOrCreateIDForLocalObject(PeerState(p), ObjRef(o), pick)} :
       Apply(p, "idFor", r)

\* getLocalObject(id)
LocalFor(p, id) ==
  \E r \in {getLocalObject(PeerState(p), id)} :
    Apply(p, "localFor", r)

\* deleteLocalObject(id)
Release(p, id) ==
  \E r \in {deleteLocalObject(PeerState(p), id)} :
    Apply(p, "release", r)

\* addRemoteObject(id, stub), for a callable stub made for it; a stub that
\* is not registered is garbage at once.
Register(p, id) ==
  \E c \in {makeCallable(PeerState(p), IdLocal(id, "Function", EmptyMap, "r"))} :
    /\ c.status = "ok"
    /\ \E r \in {addRemoteObject(c.st, id, c.val)} :
         Apply(p, "register",
               IF r.status = "ok" THEN r ELSE [r EXCEPT !.st.stubs = stubs[p]])

\* registerRemoteClass(descr), for the description of any class.
Describe(p, className) ==
  \E r \in {registerRemoteClass(PeerState(p), <<ClassDescr(className)>>)} :
    Apply(p, "class", r)

\* The references and descriptions the other end may send: of its objects
\* and functions, with properties and without, with a class name and
\* without, and references to objects of this peer.
FrameIDs == 1 .. 2
Frames ==
  {IdLocal(id, className, properties, "r") :
     id \in FrameIDs, className \in {"Garage", "Function", ""},
     properties \in {EmptyMap, (N_x :> Prim(1))}}
  \cup {IdRemote(Str(id), "") : id \in FrameIDs}

\* mapIncomingObjects(value)
Receive(p, value) ==
  \E r \in {mapIncomingObjects(PeerState(p), value)} :
    Apply(p, "incoming", r)

\* mapOutgoingObjects(value), for what the peer holds.
Export(p, value) ==
  /\ value \in Held(PeerState(p), p)
  /\ \E pick \in Picks(p, value) :
     \E r \in {mapOutgoingObjects(PeerState(p), value, pick, MaxDepth)} :
       Apply(p, "outgoing", r)

\* The server has the objects a0 and a2 and the function f1, and has sent
\* the descriptions of its classes.
InitLocal ==
  /\ Started
  /\ alive = [p \in Peers |-> LocalObjs(p) \cap {"a0", "a2", "f1"}]
  /\ startObject = [p \in Peers |-> "a0"]
  /\ localClasses = [p \in Peers |-> ClassNames]
  /\ remoteClasses = [p \in Peers |-> {}]
  /\ described = [p \in Peers |-> ClassNames]
  /\ sentClasses = [p \in Peers |-> ClassNames]

NextLocal ==
  \E p \in Servers :
    \/ \E o \in LocalObjs(p) : IdFor(p, o)
    \/ \E id \in IDs : LocalFor(p, id)
    \/ \E id \in IDs : Release(p, id)
    \/ \E value \in Held(PeerState(p), p) : Export(p, value)
    \/ \E o \in LocalObjs(p) : CollectLocal(p, o)
    \/ LocalFinalizer(p)

SpecLocal == InitLocal /\ [][NextLocal]_vars

\* The server has objects that refer to other objects of it: c1 and c2 to
\* each other, and c3 to a2.  Its application holds them all.
InitGraph ==
  /\ Started
  /\ alive = [p \in Peers |-> LocalObjs(p) \cap {"a2", "c1", "c2", "c3"}]
  /\ startObject = [p \in Peers |-> "a2"]
  /\ localClasses = [p \in Peers |-> ClassNames]
  /\ remoteClasses = [p \in Peers |-> {}]
  /\ described = [p \in Peers |-> ClassNames]
  /\ sentClasses = [p \in Peers |-> ClassNames]

NextGraph ==
  \E p \in Servers :
    \/ \E o \in LocalObjs(p) : IdFor(p, o)
    \/ \E id \in IDs : LocalFor(p, id)
    \/ \E id \in IDs : Release(p, id)
    \/ \E value \in Held(PeerState(p), p) : Export(p, value)

SpecGraph == InitGraph /\ [][NextGraph]_vars

\* The classes the other end describes.
DescribedHere == {"Garage", "Thing"}

\* The client has got the description of the class Garage.
InitRemote ==
  /\ Started
  /\ alive = [p \in Peers |-> {}]
  /\ startObject = [p \in Peers |-> "a0"]
  /\ localClasses = [p \in Peers |-> {}]
  /\ remoteClasses = [p \in Peers |-> IF p \in Clients THEN {"Garage"} ELSE {}]
  /\ described = [p \in Peers |-> {}]
  /\ sentClasses = [p \in Peers |-> {}]

NextRemote ==
  \E p \in Clients :
    \/ \E id \in IDs : Register(p, id)
    \/ \E className \in DescribedHere : Describe(p, className)
    \/ \E value \in Frames : Receive(p, value)
    \/ \E value \in Held(PeerState(p), p) : Export(p, value)
    \/ \E s \in 1 .. MaxStubs : CollectStub(p, s)
    \/ RemoteFinalizer(p)
    \/ HandleDel(Other(p))

SpecRemote == InitRemote /\ [][NextRemote]_vars

\* ---------------------------------------------------------- arguments
\* The arguments of a request any program at the other end may send: a
\* reference to an object or function of its own followed by a number or
\* by a reference to an object of this peer, and a description one of
\* whose properties is such a reference.
ArgFrames ==
  {<<IdLocal(id, className, EmptyMap, "r"), last>> :
     id \in FrameIDs, className \in {"Garage", "Function"},
     last \in {Prim(1), IdRemote(Str(1), "")}}
  \cup {<<IdLocal(id, "Garage", (N_x :> IdRemote(Str(1), "")), "r")>> :
          id \in FrameIDs}
\* let args = this.mapIncomingObjects(payload.args) of a listener.
ReceiveArgs(p, args) == Receive(p, ArrayOf(args))

NextArgs ==
  \E p \in Clients :
    \/ \E args \in ArgFrames : ReceiveArgs(p, args)
    \/ \E s \in 1 .. MaxStubs : CollectStub(p, s)
    \/ RemoteFinalizer(p)
    \/ HandleDel(Other(p))

SpecArgs == InitRemote /\ [][NextArgs]_vars

\* -------------------------------------------------- class descriptions
\* The class descriptions any program at the other end may push, one or
\* two in a "class" message, in any order.
MaxDescrs == 2
DescrLists ==
  UNION {[1 .. n -> {ClassDescr(c) : c \in ClassNames}] : n \in 1 .. MaxDescrs}
\* The "class" message with descrs is on its way to p.
PushClasses(p, descrs) ==
  /\ CanSend
  /\ chan' = Send(p, WithCall(ClassMsg(descrs), Main))
  /\ UNCHANGED <<localIDsToObjects, localObjectsToIDs, localObjectRegistry,
                 remoteObjects, remoteObjectRegistry, stubs, alive,
                 localClasses, remoteClasses, heap, fleets, patched, issued,
                 startObject, callVars>>

\* The client knows no class of the other end.
InitClasses ==
  /\ Started
  /\ alive = [p \in Peers |-> {}]
  /\ startObject = [p \in Peers |-> "a0"]
  /\ localClasses = [p \in Peers |-> {}]
  /\ remoteClasses = [p \in Peers |-> {}]
  /\ described = [p \in Peers |-> {}]
  /\ sentClasses = [p \in Peers |-> {}]

NextClasses ==
  \E p \in Clients :
    \/ \E descrs \in DescrLists : PushClasses(p, descrs)
    \/ ClassListener(p)
    \/ HandleReply(Other(p))
    \/ HandleError(Other(p))

SpecClasses == InitClasses /\ [][NextClasses]_vars

\* ------------------------------------------------------------ properties
\* The local object a stub stands for.
Owner(p, s) == stubs[p][s].origin

\* C15: once await stub.setOwner(v) has resolved, the owner's object holds
\* v, and the await stub.owner that the activity does next resolves to v.
SetThenGet ==
  [][\A p \in Clients :
       LET doing == awaited[p][Main]
           returns == doing.verb # "none" /\ awaited'[p][Main] = Idle
       IN /\ returns /\ doing.verb = "set" /\ ended'[p].state = "resolved"
             => fleets'[Other(p)][Owner(p, doing.stub)].owner = doing.arg
          /\ /\ returns /\ doing.verb = "get"
             /\ ended[p].state = "resolved" /\ ended[p].verb = "set"
             /\ ended[p].stub = doing.stub /\ ended[p].name = doing.name
             => ended'[p] = Resolved(doing, ended[p].arg)]_vars

\* The messages of call c of peer p and what stands for them: its requests
\* on their way, the handlers of the other peer that have not answered
\* them, its class calls on their way, and the answers on their way back.
HasCall(m, c) == "callID" \in DOMAIN m /\ m.callID = c
RequestsOf(p, c) ==
  {k \in DOMAIN chan[Other(p)] :
     /\ HasCall(chan[Other(p)][k], c)
     /\ chan[Other(p)][k].verb \in Listeners \ {"class", "del"}}
ClassCallsOf(p, c) ==
  {k \in DOMAIN chan[Other(p)] :
     HasCall(chan[Other(p)][k], c) /\ chan[Other(p)][k].verb = "class"}
TasksFor(p, c) ==
  {k \in DOMAIN running[Other(p)] : running[Other(p)][k].req = c}
AnswersTo(p, c) ==
  {k \in DOMAIN chan[p] :
     HasCall(chan[p][k], c) /\ chan[p][k].verb \in {"reply", "error"}}

\* Every call that waits has exactly one of: its request, a handler for
\* it, its answer; a call that does not wait has none of them.
OneAnswer ==
  \A p \in Peers : \A c \in Threads :
    /\ calls[p][c] \in {AppCall, ApiCall}
         => Cardinality(RequestsOf(p, c)) + Cardinality(TasksFor(p, c))
              + Cardinality(AnswersTo(p, c)) = 1
    /\ calls[p][c] = HandlerCall
         => Cardinality(ClassCallsOf(p, c)) + Cardinality(AnswersTo(p, c)) = 1
    /\ calls[p][c] = FreeCall
         => RequestsOf(p, c) \cup ClassCallsOf(p, c) \cup AnswersTo(p, c) = {}

\* The step that takes a "del" off the queue of p sends nothing back.
DelUnanswered ==
  \A p \in Peers :
    Incoming(p, "del") /\ chan'[p] = Tail(chan[p])
      => chan'[Other(p)] = chan[Other(p)]

\* C14: every request but "del" gets exactly one answer, a result or an
\* error, and gets it eventually: the call that waits for it ends.  A "del"
\* gets no answer.
AnsweredOnce ==
  /\ []OneAnswer
  /\ [][DelUnanswered]_vars
  /\ \A p \in Peers : \A c \in Threads :
       calls[p][c] # FreeCall ~> calls[p][c] = FreeCall

\* An answer is on its way to the client after a "del" has been handled.
AnsweredOnceWitness ==
  \E p \in Clients :
    /\ AnswersTo(p, Main) # {}
    /\ \E id \in DOMAIN localIDsToObjects[Other(p)] :
         localIDsToObjects[Other(p)][id] = Weak(ObjRef("f1"))

\* The pick of an object that needs no new ID.
NoPick == [x \in {} |-> 0]

\* C26: getOrCreateIDForLocalObject(obj) gives an object that has an ID
\* that ID again and issues none; it issues an ID that is no key of
\* _localIDsToObjects to an object that has none; and it leaves the entry
\* of the ID a strong reference to the object, also when it was weak.
IdForStable ==
  /\ [](\A p \in Peers : \A obj \in DOMAIN localObjectsToIDs[p] :
          getOrCreateIDForLocalObject(PeerState(p), obj, NoPick).val
            = localObjectsToIDs[p][obj])
  /\ [][\A p \in Peers : \A o \in LocalObjs(p) :
          IdFor(p, o) =>
            LET obj == ObjRef(o)
                known == obj \in DOMAIN localObjectsToIDs[p]
                id == localObjectsToIDs'[p][obj]
            IN /\ obj \in DOMAIN localObjectsToIDs'[p]
               /\ \A x \in DOMAIN localObjectsToIDs[p] :
                    localObjectsToIDs'[p][x] = localObjectsToIDs[p][x]
               /\ known => issued'[p] = issued[p]
               /\ ~known => /\ id \notin DOMAIN localIDsToObjects[p]
                             /\ issued'[p] = issued[p] \cup {<<obj, id>>}
               /\ localIDsToObjects'[p] =
                    Put(localIDsToObjects[p], id, Strong(obj))]_vars

\* getOrCreateIDForLocalObject has returned while the table holds both a
\* strong entry and a weak one, the entry of an ID the peer has released.
IdForStableWitness ==
  \E p \in Peers :
    /\ ended[p] = Applied("idFor", Ok(PeerState(p), Undefined))
    /\ \E i, j \in DOMAIN localIDsToObjects[p] :
         /\ localIDsToObjects[p][i].strong
         /\ ~localIDsToObjects[p][j].strong

\* C27: getLocalObject(id) returns the object of a strong entry, or of a
\* weak entry whose object is alive, which it makes strong; for an ID with
\* no entry or with a weak entry whose object is collected it throws and
\* leaves _localIDsToObjects as it is.
LocalForUpgrades ==
  /\ [](\A p \in Peers : \A id \in DOMAIN localIDsToObjects[p] :
          IsAlive(PeerState(p), localIDsToObjects[p][id].obj) =>
            getLocalObject(PeerState(p), id).val = localIDsToObjects[p][id].obj)
  /\ [][\A p \in Peers : \A id \in IDs :
          LocalFor(p, id) =>
            IF /\ id \in DOMAIN localIDsToObjects[p]
               /\ IsAlive(PeerState(p), localIDsToObjects[p][id].obj)
            THEN /\ ended'[p].state = "resolved"
                 /\ localIDsToObjects'[p] =
                      Put(localIDsToObjects[p], id,
                          Strong(localIDsToObjects[p][id].obj))
            ELSE /\ ended'[p].state = "rejected"
                 /\ localIDsToObjects'[p] = localIDsToObjects[p]]_vars

\* getLocalObject has thrown, and there is a weak entry whose object is
\* collected.
LocalForUpgradesWitness ==
  \E p \in Peers :
    /\ ended[p] = Applied("localFor", Threw(PeerState(p), ""))
    /\ \E id \in DOMAIN localIDsToObjects[p] :
         ~IsAlive(PeerState(p), localIDsToObjects[p][id].obj)

\* C22: mapOutgoingObjects gives for every stub, callable ones included,
\* {idRemote: id} with the ID the stub is registered under, and gives the
\* stub no local ID.
StubGoesHome ==
  /\ [](\A p \in Peers : \A s \in 1 .. MaxStubs :
          stubs[p][s].state = "live" =>
            \A pick \in Picks(p, StubRef(s)) :
              LET r == mapOutgoingObjects(PeerState(p), StubRef(s), pick,
                                          MaxDepth)
              IN r.status = "ok" =>
                   r.val = IdRemote(Str(stubs[p][s].regId), stubs[p][s].origin))
  /\ [][\A p \in Peers : \A s \in 1 .. MaxStubs :
          Export(p, StubRef(s)) =>
            /\ localObjectsToIDs'[p] = localObjectsToIDs[p]
            /\ localIDsToObjects'[p] = localIDsToObjects[p]
            /\ issued'[p] = issued[p]]_vars

\* Whether value is a reference {idLocal, className?} without properties
\* to something that is no function.
IsShort(value) ==
  /\ value.t = "idLocal"
  /\ value.properties = EmptyMap
  /\ value.className # "Function"

\* C24: mapIncomingObjects throws for a reference without properties whose
\* ID has no live stub and whose className is not "Function", and makes and
\* registers no stub for it.
ShortNeedsStub ==
  [][\A p \in Peers : \A value \in Frames :
       /\ Receive(p, value)
       /\ IsShort(value)
       /\ getRemoteObject(PeerState(p), value.idLocal) = NoStub
       => /\ ended'[p].state = "rejected"
          /\ stubs'[p] = stubs[p]
          /\ remoteObjects'[p] = remoteObjects[p]]_vars

\* C25: mapIncomingObjects takes a value with idLocal and properties, of a
\* class it has, as the description of a new object: it makes a stub and
\* registers it under the ID, whether or not the ID has a live stub.
FullIntroduces ==
  [][\A p \in Peers : \A value \in Frames :
       /\ Receive(p, value)
       /\ value.t = "idLocal"
       /\ value.properties # EmptyMap
       /\ value.className \in remoteClasses[p]
       => \E s \in 1 .. MaxStubs :
            /\ stubs[p][s].state # "live"
            /\ stubs'[p][s].state = "live"
            /\ getRemoteObject(PeerState(p), value.idLocal) # s
            /\ value.idLocal \in DOMAIN remoteObjects'[p]
            /\ remoteObjects'[p][value.idLocal] = s]_vars

\* C29: addRemoteObject(id, stub) throws and leaves _remoteObjects as it is
\* when a live stub is registered under id; when id has no entry or the
\* stub of its entry is collected, it registers the stub under id.
RegisterOnce ==
  [][\A p \in Peers : \A id \in IDs :
       Register(p, id) =>
         IF getRemoteObject(PeerState(p), id) # NoStub
         THEN /\ ended'[p].state = "rejected"
              /\ remoteObjects'[p] = remoteObjects[p]
              /\ remoteObjectRegistry'[p] = remoteObjectRegistry[p]
         ELSE /\ ended'[p].state = "resolved"
              /\ \E s \in FreeSlots(PeerState(p)) :
                   /\ stubs'[p][s].state = "live"
                   /\ remoteObjects'[p] = Put(remoteObjects[p], id, s)
                   /\ remoteObjectRegistry'[p] =
                        remoteObjectRegistry[p] \cup {<<s, id>>}]_vars

\* addRemoteObject has registered a stub under an ID whose entry held a
\* stub that is collected.
RegisterOnceWitness ==
  \E p \in Peers :
    /\ ended[p] = Applied("register", Ok(PeerState(p), Undefined))
    /\ \E reg \in remoteObjectRegistry[p] :
         /\ stubs[p][reg[1]].state = "collected"
         /\ getRemoteObject(PeerState(p), reg[2]) \notin {NoStub, reg[1]}

\* C30: registerRemoteClass returns and changes nothing when it has a
\* prototype for the className of the description, and no step takes a class
\* from _remoteClasses.
ClassKept ==
  /\ [][\A p \in Peers : remoteClasses[p] \subseteq remoteClasses'[p]]_vars
  /\ [][\A p \in Peers : \A className \in DescribedHere :
          Describe(p, className) /\ className \in remoteClasses[p] =>
            /\ ended'[p].state = "resolved"
            /\ remoteClasses'[p] = remoteClasses[p]
            /\ patched'[p] = patched[p]
            /\ stubs'[p] = stubs[p]
            /\ remoteObjects'[p] = remoteObjects[p]]_vars

\* registerRemoteClass has returned for the description of Garage, the one
\* class the peer has.
ClassKeptWitness ==
  \E p \in Peers :
    /\ ended[p] = Applied("class", Ok(PeerState(p), Undefined))
    /\ remoteClasses[p] = {"Garage"}

\* C23: mapOutgoingObjects gives for a classed local object that has a
\* local ID the reference {idLocal: ID}, without className and properties:
\* so the answer to "start" once the start object has an ID.
ShortWhenKnown ==
  [][\A p \in Peers :
       /\ HandleStart(p)
       /\ ClassOf(startObject[p]) # "Function"
       /\ ObjRef(startObject[p]) \in DOMAIN localObjectsToIDs[p]
       => LET m == chan'[Other(p)][Len(chan'[Other(p)])] IN
          /\ m.verb = "reply"
          /\ m.value = IdLocal(localObjectsToIDs[p][ObjRef(startObject[p])],
                               "", EmptyMap, startObject[p])]_vars

\* C28: handling "del" for the ID i makes a strong entry of i in
\* _localIDsToObjects weak and leaves a weak one; every other entry, the
\* other tables of the peer, the tables of the other peer and the classes
\* stay as they are, and nothing is sent.
DelChangesEntryOnly ==
  [][\A p \in Peers :
       HandleDel(p) =>
         LET i == Head(chan[p]).idRemote
             entries == localIDsToObjects[p]
         IN /\ localIDsToObjects'[p] =
                 IF i \in DOMAIN entries /\ entries[i].strong
                 THEN Put(entries, i, Weak(entries[i].obj))
                 ELSE entries
            /\ localIDsToObjects'[Other(p)] = localIDsToObjects[Other(p)]
            /\ UNCHANGED <<localObjectsToIDs, localObjectRegistry,
                           remoteObjects, remoteObjectRegistry, stubs, alive,
                           localClasses, remoteClasses, issued>>
            /\ chan'[Other(p)] = chan[Other(p)]
            /\ chan'[p] = Tail(chan[p])]_vars

\* A "del" has been handled: an object that is alive and has its ID has a
\* weak entry, next to the strong entry of another object.
DelChangesEntryOnlyWitness ==
  \E p \in Peers : \E i, j \in DOMAIN localIDsToObjects[p] :
    /\ ~localIDsToObjects[p][i].strong
    /\ IsAlive(PeerState(p), localIDsToObjects[p][i].obj)
    /\ localIDsToObjects[p][i].obj \in DOMAIN localObjectsToIDs[p]
    /\ localObjectsToIDs[p][localIDsToObjects[p][i].obj] = i
    /\ localIDsToObjects[p][j].strong
    /\ chan[p] = <<>>

\* A call is outstanding at the peer p: a promise waits for its answer.
Outstanding(p) ==
  \/ \E c \in Threads : calls[p][c] # FreeCall
  \/ \E t \in Threads : awaited[p][t] # Idle
LostError == [t |-> "error", message |-> ConnectionLost]
Brought(p, descrs, k) ==
  remoteClasses[p] \cup {descrs[j].className : j \in 1 .. k - 1}
Orphan(p, descrs, k) ==
  /\ descrs[k].className \notin Brought(p, descrs, k)
  /\ descrs[k].extends # ""
  /\ descrs[k].extends \notin Brought(p, descrs, k)
FirstOrphan(p, descrs, k) ==
  /\ Orphan(p, descrs, k)
  /\ \A j \in 1 .. k - 1 : ~Orphan(p, descrs, j)
\* C31: when a peer receives a class description whose extends names a
\* class it has not registered, the "class" request is answered with an
\* error and the described class is not registered; so every registered
\* class that extends another has its super class registered too.
OrphanRefused ==
  /\ [](\A p \in Peers : \A c \in remoteClasses[p] :
          ParentOf(c) # "Object" => ParentOf(c) \in remoteClasses[p])
  /\ [][\A p \in Peers :
          ClassListener(p) =>
            LET descrs == Head(chan[p]).descrs IN
            \A k \in 1 .. Len(descrs) :
              FirstOrphan(p, descrs, k) =>
                /\ chan'[Other(p)] # <<>>
                /\ chan'[Other(p)][Len(chan'[Other(p)])].verb = "error"
                /\ descrs[k].className \notin remoteClasses'[p]]_vars
\* The peer has the class Thing and neither Movable nor Car, and the
\* error that answers the description of Car it refused is on its way back.
OrphanRefusedWitness ==
  \E p \in Peers :
    /\ "Thing" \in remoteClasses[p] /\ "Movable" \notin remoteClasses[p]
    /\ "Car" \notin remoteClasses[p]
    /\ Head_(Other(p), "error")

\* C32: an entry of _localIDsToObjects is erased only when it is a weak
\* reference to a local object that has been collected, and a local object
\* is collected only while no entry holds it strongly: an entry that holds
\* a strong reference is never erased.
ErasedWhenCollected ==
  [][\A p \in Peers :
       /\ \A id \in DOMAIN localIDsToObjects[p] :
            id \notin DOMAIN localIDsToObjects'[p] =>
              /\ ~localIDsToObjects[p][id].strong
              /\ ~IsAlive(PeerState(p), localIDsToObjects[p][id].obj)
       /\ \A o \in alive[p] \ alive'[p] :
            \A id \in DOMAIN localIDsToObjects[p] :
              localIDsToObjects[p][id] # Strong(ObjRef(o))]_vars
\* The entry of an ID the peer issued has been erased, and the table holds
\* a strong entry and a weak one.
ErasedWhenCollectedWitness ==
  \E p \in Peers :
    /\ \E reg \in issued[p] : reg[2] \notin DOMAIN localIDsToObjects[p]
    /\ \E i, j \in DOMAIN localIDsToObjects[p] :
         /\ localIDsToObjects[p][i].strong
         /\ ~localIDsToObjects[p][j].strong

\* The iteration protocol the prototype of a class implements, by itself or
\* by a class it extends.
ProtocolOf(className) ==
  IF Ancestors(className) \cap AsyncIterableClasses # {} THEN "asyncIterator"
  ELSE IF Ancestors(className) \cap IterableClasses # {} THEN "iterator"
  ELSE ""
\* C33: the iterator tag of a class description a peer has sent is
\* "asyncIterator" when the prototype of the class implements the async
\* iteration protocol, else "iterator" when it implements the synchronous
\* one, else it is absent.
IteratorTagged ==
  \A p \in Peers : \A m \in Range(chan[p]) :
    m.verb = "class" =>
      \A k \in DOMAIN m.descrs :
        m.descrs[k].iterator = ProtocolOf(m.descrs[k].className)

\* A listener of the peer p has not answered the request req yet.
Handling(p, req) == \E k \in DOMAIN running[p] : running[p][k].req = req
\* C34: a class call made from inside a listener never deadlocks: when
\* both peers handle a request at the same time and each has to send a
\* class description to the other first, each class call is answered and
\* both listeners send their answer in the end, so that the calls of both
\* applications end.
NoClassDeadlock ==
  \A p \in Peers : \A c \in Threads :
    /\ calls[p][c] = HandlerCall ~> calls[p][c] = FreeCall
    /\ Handling(p, c) ~> ~Handling(p, c)
    /\ calls[p][c] = AppCall ~> calls[p][c] = FreeCall
\* The listeners of both peers wait for the answer to a class call at the
\* same time.
NoClassDeadlockWitness ==
  \A p \in Peers :
    /\ calls[p][AppOf(Other(p))] = HandlerCall
    /\ Handling(p, AppOf(Other(p)))

\* The depth a marshal reaches on no path through the live objects of p
\* that comes to no object twice: each object takes one level and the
\* plain value at the end of the path one more.
GraphDepth(p) == Cardinality(alive[p]) + 1
\* C35: mapOutgoingObjects of a classed object ends and gives a finite wire
\* value for every finite graph of objects, also when two classed objects
\* refer to each other through public data properties.
MarshalEnds ==
  \A p \in Peers : \A o \in alive[p] : \A pick \in Picks(p, ObjRef(o)) :
    mapOutgoingObjects(PeerState(p), ObjRef(o), pick, GraphDepth(p)).status
      # "cut"

\* C36: when a request is rejected while its arguments are unmarshaled,
\* for instance because one of them is an {idRemote} of an ID the peer
\* does not know, _remoteObjects and _localIDsToObjects are as before the
\* request: no stub made for an earlier argument, or for the description
\* whose property fails, stays registered.
RejectedLeavesTables ==
  [][\A p \in Peers : \A args \in ArgFrames :
       ReceiveArgs(p, args) /\ ended'[p].state = "rejected" =>
         /\ remoteObjects'[p] = remoteObjects[p]
         /\ localIDsToObjects'[p] = localIDsToObjects[p]]_vars

\* The objects of the peer p that are alive and have an ID.
LiveWithID(p) ==
  {o \in DOMAIN localObjectsToIDs[p] : IsAlive(PeerState(p), o)}

\* C39: the two tables of a peer agree on the objects that are alive: an
\* entry of _localIDsToObjects under the ID i for a live object o goes with
\* _localObjectsToIDs giving i for o, and _localObjectsToIDs gives no ID to
\* two live objects.
TablesAgree ==
  \A p \in Peers :
    /\ \A i \in DOMAIN localIDsToObjects[p] :
         LET o == localIDsToObjects[p][i].obj IN
         IsAlive(PeerState(p), o)
           => /\ o \in DOMAIN localObjectsToIDs[p]
              /\ localObjectsToIDs[p][o] = i
    /\ \A o1 \in LiveWithID(p) : \A o2 \in LiveWithID(p) :
         localObjectsToIDs[p][o1] = localObjectsToIDs[p][o2] => o1 = o2

\* Two live objects have IDs, one of them in a weak entry, and the ID of a
\* third object, collected, is still a key of the table.
TablesAgreeWitness ==
  \E p \in Peers :
    /\ \E o1 \in LiveWithID(p) : \E o2 \in LiveWithID(p) :
         /\ o1 # o2
         /\ localIDsToObjects[p][localObjectsToIDs[p][o1]] = Weak(o1)
         /\ localIDsToObjects[p][localObjectsToIDs[p][o2]] = Strong(o2)
    /\ \E i \in DOMAIN localIDsToObjects[p] :
         ~IsAlive(PeerState(p), localIDsToObjects[p][i].obj)

\* C20: a peer never gives one ID to two different objects, not even an ID
\* whose entry it has erased in between.
IssuedOnce ==
  \A p \in Peers : \A x \in issued[p] : \A y \in issued[p] :
    x[2] = y[2] => x[1] = y[1]

\* C16: await stub.newRemote() resolves to a stub, the one of the object
\* the owner has constructed and registered.
NewRemoteConstructs ==
  \A p \in Clients :
    ended[p].verb = "new"
      => /\ ended[p].state = "resolved"
         /\ ended[p].value.t = "stub"

\* C18: a for await loop over a stub of a tagged class starts with one
\* "iter" request for the stub, and when it ends it has yielded the items
\* of the owner's object in order.
LoopIterates ==
  [][\A p \in Clients :
       LET doing == awaited[p][Main]
           loops == {"iter", "next"}
       IN /\ doing = Idle /\ awaited'[p][Main].verb \in loops
             => /\ awaited'[p][Main].verb = "iter"
                /\ chan'[Other(p)] =
                     Append(chan[Other(p)],
                            WithCall(IterMsg(stubs[p][awaited'[p][Main].stub].id,
                                             "iterator"), Main))
          /\ doing.verb \in loops /\ awaited'[p][Main] = Idle
             => ended'[p] = Resolved(doing, ArrayOf(Items))]_vars

\* A get has resolved to a value that only a set can have put there.
SetThenGetWitness ==
  \E p \in Clients :
    /\ ended[p] = Resolved(Doing("get", ended[p].stub, N_owner, Undefined, <<>>),
                           Prim(2))
    /\ fleets[Other(p)]["a4"].owner = Prim(2)

LiveStubs(p) == {s \in 1 .. MaxStubs : stubs[p][s].state = "live"}
LiveStubsFor(p, id) == {s \in LiveStubs(p) : stubs[p][s].regId = id}

\* C1: on one peer, at most one live stub exists for any ID of the other peer.
SingleStub ==
  \A p \in Peers : \A id \in IDs : Cardinality(LiveStubsFor(p, id)) <= 1

\* The messages p sends in a step: its handlers and calls append to the
\* queue of the other peer, which only the other peer shortens.
SentBy(p) ==
  LET q == Other(p) IN
  IF Len(chan'[q]) = Len(chan[q]) + 1 THEN {chan'[q][Len(chan'[q])]} ELSE {}

\* The values of a wire array, and the wire values a message carries.
Elements(w) == {w.els[k] : k \in 1 .. Len(w.els)}
Carried(m) ==
  CASE m.verb = "func" -> Elements(m.args)
    [] m.verb = "reply" -> {m.value}
    [] OTHER -> {}

\* A wire value and the wire values nested in it.
RECURSIVE WireParts(_)
WireParts(w) ==
  {w} \cup
  CASE w.t = "array" -> UNION {WireParts(e) : e \in Elements(w)}
    [] w.t = "plainObject" ->
         UNION {WireParts(w.plainObject[n]) : n \in DOMAIN w.plainObject}
    [] w.t = "idLocal" ->
         UNION {WireParts(w.properties[n]) : n \in DOMAIN w.properties}
    [] OTHER -> {}

\* The messages on their way from p, and the descriptions of local objects
\* of p they carry.
InFlightFrom(p) == Range(chan[Other(p)])
DescriptionsFrom(p) ==
  {w \in UNION {WireParts(v) : v \in UNION {Carried(m) : m \in InFlightFrom(p)}} :
     w.t = "idLocal"}
ClassDescrsFrom(p) ==
  UNION {Range(m.descrs) : m \in {n \in InFlightFrom(p) : n.verb = "class"}}

\* The entry of the ID i at its owner p is a strong reference; the peer q
\* holds a stub for i; a description under i is on its way from p.
StrongAt(p, i) ==
  i \in DOMAIN localIDsToObjects[p] /\ localIDsToObjects[p][i].strong
HeldBy(q, i) ==
  \E s \in 1 .. MaxStubs :
    stubs[q][s].state = "live" /\ stubs[q][s].regId = i
OnWayFrom(p, i) == \E w \in DescriptionsFrom(p) : w.idLocal = i
IdentityRoundTrip ==
  \A p \in Peers :
    Head_(p, "func") =>
      \A w \in Carried(Head(chan[p])) :
        w.t = "idRemote" =>
          LET r == mapIncomingObjects(PeerState(p), w) IN
          r.status = "ok" /\ r.val = ObjRef(w.ghost)

\* C11: a live stub of a class keeps the ID it is registered under as its id.
StubIdStable ==
  \A p \in Peers : \A s \in LiveStubs(p) :
    stubs[p][s].className # "Function" =>
      stubs[p][s].id = Str(stubs[p][s].regId)

\* C3: a description {idLocal, className, properties} is on its way only
\* after the class calls for className and for each of its ancestors have
\* been sent and answered.
ClassBeforeInstance ==
  \A p \in Peers : \A w \in DescriptionsFrom(p) :
    Ancestors(w.className) \subseteq described[p]

\* C4: a class description with extends M is on its way only after the
\* class call for M has been sent and answered, and the peer that receives
\* it has registered M.
ParentBeforeChild ==
  \A p \in Peers :
    /\ \A descr \in ClassDescrsFrom(p) :
         descr.extends # "" => descr.extends \in described[p]
    /\ Head_(p, "class") =>
         registerRemoteClass(PeerState(p), Head(chan[p]).descrs).status = "ok"

\* The class descriptions among the messages p sends in the step.
ClassesSent(p) ==
  UNION {Range(m.descrs) : m \in {n \in SentBy(p) : n.verb = "class"}}

\* C12: a peer makes no class call for a class name it has made one for
\* before, and a class call describes one class.
ClassSentOnce ==
  [][\A p \in Peers :
       /\ \A descr \in ClassesSent(p) : descr.className \notin sentClasses[p]
       /\ Cardinality(ClassesSent(p)) <= 1]_vars

\* A handler makes the class calls for an object while another object that
\* shares an ancestor class with it has been exposed and that ancestor's
\* class call has been made.
ClassSentOnceWitness ==
  \E p \in Peers : \E k \in DOMAIN running[p] :
    \E o \in {x \in DOMAIN localObjectsToIDs[p] : x # running[p][k].value} :
      /\ running[p][k].phase = "class"
      /\ \E c \in Ancestors(ClassOf(o.o)) \cap
                       Ancestors(ClassOf(running[p][k].value.o)) :
           c \in sentClasses[p] /\ c \notin Range(running[p][k].toSend)

\* The handler that answers request req of the other peer ends in the step.
Ends(p, req) ==
  /\ req \in {running[p][k].req : k \in DOMAIN running[p]}
  /\ req \notin {running'[p][k].req : k \in DOMAIN running'[p]}
\* The step is p taking the answer at the head of its queue to a call the
\* application awaits.
Returns(p) ==
  /\ Answered(p)
  /\ chan'[p] = Tail(chan[p])
  /\ calls[p][Head(chan[p]).callID] = AppCall

\* C9: when the function a func request calls throws E, the handler ends
\* with an error answer carrying E's message and with nothing else, and the
\* call that an error answer arrives for rejects with the message of it.
ErrorPropagation ==
  /\ [][\A p \in Peers : \A k \in DOMAIN running[p] :
          LET task == running[p][k] IN
          (task.phase = "invoked" /\ task.value.t = "throws"
                                  /\ Ends(p, task.req)) =>
            SentBy(p) = {WithCall([verb |-> "error",
                                   message |-> task.value.message], task.req)}]_vars
  /\ [][\A p \in Peers :
          (Returns(p) /\ Head(chan[p]).verb = "error") =>
            /\ returned'[p].state = "rejected"
            /\ returned'[p].message = Head(chan[p]).message]_vars

\* A call has rejected with the message of what the function threw.
ErrorPropagationWitness ==
  \E p \in Peers :
    /\ returned[p].state = "rejected"
    /\ returned[p].message = "E"

\* The names of a class description.
NamesOf(descr) ==
  {f.name : f \in Range(descr.functions)} \cup
  {g.name : g \in Range(descr.getters)} \cup
  {x.name : x \in Range(descr.properties)}

\* C10: no name that starts with "_" is a key of the properties of a
\* description on its way, or a function, getter or property name of a class
\* description on its way.
UnderscoreFiltered ==
  \A p \in Peers :
    /\ \A w \in DescriptionsFrom(p) : \A n \in DOMAIN w.properties :
         ~startsWith(n, "_")
    /\ \A descr \in ClassDescrsFrom(p) : \A n \in NamesOf(descr) :
         ~startsWith(n, "_")

\* On their way are the description of an object that has a property named
\* with "_" and the description of a class that has a name of that kind.
UnderscoreFilteredWitness ==
  \E p \in Peers :
    /\ \E w \in DescriptionsFrom(p) :
         \E n \in DOMAIN OwnProps(w.ghost) : startsWith(n, "_")
    /\ \E descr \in ClassDescrsFrom(p) :
         \E n \in DOMAIN ProtoProps(descr.className) : startsWith(n, "_")

\* C6: as long as the other peer holds a live stub for ID i, localIDsToObjects
\* of the exposing peer has an entry for i that resolves to the exposed object.
EntryWhileStubLives ==
  \A q \in Peers : \A s \in LiveStubs(q) :
    LET p == Other(q)
        i == stubs[q][s].regId
    IN /\ i \in DOMAIN localIDsToObjects[p]
       /\ localIDsToObjects[p][i].obj = ObjRef(stubs[q][s].origin)
       /\ IsAlive(PeerState(p), localIDsToObjects[p][i].obj)

\* C8 (its half about classed objects): a description of a classed object
\* that arrives while a stub for that object is alive resolves to that stub.
ClassedSameStub ==
  \A q \in Peers :
    Head_(q, "reply") =>
      \A w \in Carried(Head(chan[q])) : \A s \in LiveStubs(q) :
        (w.t = "idLocal" /\ stubs[q][s].regId = w.idLocal
                         /\ stubs[q][s].origin = w.ghost) =>
          mapIncomingObjects(PeerState(q), w).val = StubRef(s)

\* C17: a function that arrives again, as {idLocal, className: "Function"},
\* while the callable stub made for it is alive resolves to that stub.
CallableSameStub ==
  \A q \in Peers :
    Head_(q, "reply") =>
      \A w \in Carried(Head(chan[q])) : \A s \in LiveStubs(q) :
        (w.t = "idLocal" /\ w.className = "Function"
                         /\ stubs[q][s].regId = w.idLocal
                         /\ stubs[q][s].origin = w.ghost) =>
          mapIncomingObjects(PeerState(q), w).val = StubRef(s)

Dels(p) == {m \in SentBy(p) : m.verb = "del"}

Registrations(p, s) == {reg \in remoteObjectRegistry[p] : reg[1] = s}
Finalized(p, s) ==
  stubs[p][s].state = "collected" /\ stubs'[p][s].state # "collected"

\* C5: the collection of a stub registered under ID i causes exactly one
\* del {idRemote: i}: every stub has one callback registered for it with its
\* ID, the callback of a collected stub sends one del with that ID, and no
\* del is sent otherwise.
GCToDel ==
  /\ [](\A p \in Peers : \A s \in 1 .. MaxStubs :
          stubs[p][s].state # "free" =>
            Registrations(p, s) = {<<s, stubs[p][s].regId>>})
  /\ [][\A p \in Peers : \A s \in 1 .. MaxStubs :
          Finalized(p, s) =>
            /\ Dels(p) = {DelMsg(stubs[p][s].regId)}
            /\ Registrations(p, s)' = {}
            /\ stubs'[p][s].state = "free"]_vars
  /\ [][\A p \in Peers :
          Dels(p) # {} => \E s \in 1 .. MaxStubs : Finalized(p, s)]_vars

\* A stub has been collected and its callback has sent the del.
GCToDelWitness ==
  \E p \in Peers :
    /\ chan[Other(p)] # <<>> /\ Head(chan[Other(p)]).verb = "del"
    /\ Head(chan[Other(p)]).idRemote \notin DOMAIN remoteObjects[p]

\* The step is p handling the del at the head of its queue.
HandlesDel(p) == Head_(p, "del") /\ chan'[p] = Tail(chan[p])
\* The descriptions of local objects among the values p sends in the step.
Described(p) ==
  {w \in UNION {Carried(m) : m \in SentBy(p)} : w.t = "idLocal"}

\* C37: every del a finalizer of the peer has sent is handled by the owner
\* without error: when the owner handles del {idRemote: i} its
\* _localIDsToObjects has an entry for i, strong or weak, however the
\* collection of stubs, the exports of the object and the collection of
\* the object interleave.
DelFindsEntry ==
  [][\A p \in Peers :
       HandlesDel(p) =>
         /\ Head(chan[p]).idRemote \in DOMAIN localIDsToObjects[p]
         /\ deleteLocalObject(PeerState(p), Head(chan[p]).idRemote).status
              = "ok"]_vars

\* C7: a del for ID i whose local object is alive leaves the entry for i in
\* place, as a weak reference to the same object; a later export of that
\* object uses the ID i again and makes the entry strong.
DelDemotes ==
  /\ [][\A p \in Peers :
          HandlesDel(p) =>
            LET i == Head(chan[p]).idRemote IN
            (i \in DOMAIN localIDsToObjects[p]
               /\ IsAlive(PeerState(p), localIDsToObjects[p][i].obj)) =>
              /\ i \in DOMAIN localIDsToObjects'[p]
              /\ localIDsToObjects'[p][i] = Weak(localIDsToObjects[p][i].obj)]_vars
  /\ [][\A p \in Peers : \A i \in DOMAIN localIDsToObjects[p] :
          \A w \in Described(p) :
            (~localIDsToObjects[p][i].strong
               /\ localIDsToObjects[p][i].obj = ObjRef(w.ghost)) =>
              /\ w.idLocal = i
              /\ i \in DOMAIN localIDsToObjects'[p]
              /\ localIDsToObjects'[p][i] = Strong(ObjRef(w.ghost))]_vars

\* The description createObjectDescription gives of the object o under id.
FullDescription(o, id) ==
  IdLocal(id, ClassOf(o),
          [n \in DescribedProps(o) |-> OwnProps(o)[n].value], o)

\* C19: an object whose entry a del has made weak is exposed again with its
\* full description, its entry is strong afterwards, and the peer that
\* receives the description gets a stub registered under its ID.
ReExportFull ==
  /\ [][\A p \in Peers : \A i \in DOMAIN localIDsToObjects[p] :
          \A w \in Described(p) :
            (~localIDsToObjects[p][i].strong
               /\ localIDsToObjects[p][i].obj = ObjRef(w.ghost)) =>
              /\ w = FullDescription(w.ghost, i)
              /\ localIDsToObjects'[p][i].strong]_vars
  /\ [](\A q \in Peers :
          Head_(q, "reply") =>
            \A w \in {v \in Carried(Head(chan[q])) : v.t = "idLocal"} :
              LET r == mapIncomingObjects(PeerState(q), w) IN
              /\ r.status \in {"ok", "blocked"}
              /\ r.status = "ok" =>
                   /\ r.val.t = "stub"
                   /\ r.st.stubs[r.val.s].state = "live"
                   /\ r.st.stubs[r.val.s].regId = w.idLocal
                   /\ r.st.remoteObjects[w.idLocal] = r.val.s)

\* A del has made the entry of an object weak, the object is alive, and a
\* function that can return it has been called.
ReExportFullWitness ==
  \E p \in Peers : \E i \in DOMAIN localIDsToObjects[p] :
    /\ ~localIDsToObjects[p][i].strong
    /\ IsAlive(PeerState(p), localIDsToObjects[p][i].obj)
    /\ localIDsToObjects[p][i].obj # ObjRef(startObject[p])
    /\ Head_(p, "func")

\* The step is p taking the start request at the head of its queue.
HandlesStart(p) == Head_(p, "start") /\ chan'[p] = Tail(chan[p])

\* C13: start registers a listener for each of the nine verbs, and a start
\* request is answered with the description of the start object.
StartAnswered ==
  /\ [](\A verb \in {"start", "class", "new", "call", "func", "get", "set",
                     "iter", "del"} : verb \in Listeners)
  /\ [][\A p \in Peers :
          HandlesStart(p) =>
            /\ ObjRef(startObject[p]) \in DOMAIN localObjectsToIDs'[p]
            /\ SentBy(p) =
                 {ReplyMsg(FullDescription(
                             startObject[p],
                             localObjectsToIDs'[p][ObjRef(startObject[p])]))}]_vars

\* The answer to a start request is on its way to a peer that holds no stub.
StartAnsweredWitness ==
  \E q \in Peers :
    /\ Head_(q, "reply")
    /\ Head(chan[q]).value.t = "idLocal"
    /\ Head(chan[q]).value.ghost = startObject[Other(q)]
    /\ \A s \in 1 .. MaxStubs : stubs[q][s].state = "free"

\* A del has made the entry of the start object weak, and the next request
\* for the start object is about to export it again.
DelDemotesWitness ==
  \E p \in Peers : \E i \in DOMAIN localIDsToObjects[p] :
    /\ localIDsToObjects[p][i] = Weak(ObjRef(startObject[p]))
    /\ Head_(p, "start")

====
